---- MODULE Spec2Model ----
(***************************************************************************)
(* A model of mindmarionette/self_healing/engine.py: the SelfHealingEngine *)
(* retry/fallback loop together with RetryPolicy, ActionHistory,           *)
(* HealingTelemetry, ContextStateManager and DependencyManager.            *)
(*                                                                         *)
(* Measurements are counted in hundredths (0.05 is 5), so that the mean    *)
(* comparison of detect_ui_drift is exact integer arithmetic.  Python list *)
(* objects that the code shares between dictionaries (the healing_plans    *)
(* list of a request's metadata) live in `heap`; a request holds the       *)
(* address of its list, 0 when the key is absent.                          *)
(***************************************************************************)
EXTENDS Integers, Sequences, FiniteSets, TLC

(* ------------------------------ bounds -------------------------------- *)

MaxAttempts == 3
MaxRuns == 1
HistoryCapacity == 4
MoreRuns == 1
MaxOutcomes == 3
MaxCapacity == 2

(* ------------------------- program constants -------------------------- *)

DriftWindow == 3
DriftTolerance == 5

(* ------------------------------ inputs -------------------------------- *)

Scenarios == {"A", "B"}
Deps == {"db", "ui"}
DepLists == {<<>>, <<"db">>, <<"db", "ui">>, <<"ui", "db">>}
StrategyLists == {<<>>, <<"s1">>, <<"s1", "s2">>}
DelayChoices == {<<>>, <<5, 7>>}

NoMeasurement == -1
NonNumeric == -2
Measurements == {NoMeasurement, NonNumeric, 2, 15}

NoError == [src |-> "none", attempt |-> 0]
NoOutcome == [kind |-> "none"]
EmptyDict == <<>>
SeedMarker == [type |-> "seed"]
NoAnswer == [op |-> "none"]
None == [is_none |-> TRUE]
NoEngine == [is_none |-> TRUE]

VARIABLES
    max_attempts,      \* RetryPolicy.max_attempts
    delays,            \* RetryPolicy.delays
    restarters,        \* DependencyManager._restarters: the names with a callback
    max_entries,       \* ActionHistory._max_entries
    context,           \* ContextStateManager.__init__: the context it was given
    parked,            \* the state of a second engine of the process while this one steps
    restart_counts,    \* DependencyManager._restart_counts
    records,           \* ActionHistory._records
    telemetry,         \* HealingTelemetry._events
    audit_log,         \* context["self_healing"]["audit_log"]
    ctx_telemetry,     \* context["self_healing"]["telemetry"]
    heap,              \* the healing_plans list objects
    clock,             \* datetime.now
    pc,                \* position inside run()
    request,           \* run(): request
    current_request,   \* run(): current_request
    fallback_queue,    \* run(): fallback_queue
    attempt,           \* run(): attempt
    last_error,        \* run(): last_error
    locator_result,    \* run(): locator_result
    dep_index,         \* _maybe_restart_dependencies: position in the for loop
    strategy,          \* _prepare_next_request: strategy
    outcome,           \* what the last run() returned or raised
    runs,              \* number of run() calls so far
    run_start,         \* Len(telemetry) when the current run() was called
    audit_start,       \* Len(audit_log) when the current run() was called
    counts_start,      \* restart_counts when the current run() was called
    raised_restarts,   \* per dependency name: restart callbacks that raised so far
    locator_calls,     \* each locator call of this run: its request and what it returned
    executor_calls,    \* plans the executor was called with in this run
    restart_calls,     \* each DependencyManager.restart call of this run, and whether it raised
    prepared,          \* per retry preparation of this run: the request it was given
    outcomes,          \* every record_outcome call so far, with its arguments
    handler_result,    \* FallbackStrategy.apply: what the last handler call returned
    answer             \* the last direct call of a query or policy method, with its result

vars == <<max_attempts, delays, restarters, restart_counts, records, telemetry,
          audit_log, ctx_telemetry, heap, clock, pc, request, current_request,
          fallback_queue, attempt, last_error, locator_result, dep_index,
          strategy, outcome, runs, run_start, audit_start, counts_start,
          locator_calls, executor_calls, restart_calls, prepared, max_entries,
          outcomes, handler_result, answer, context, parked, raised_restarts>>

config_vars == <<max_attempts, delays, restarters, max_entries, context, parked>>
ghost_vars == <<runs, run_start, audit_start, counts_start, raised_restarts>>

(* ---------------------------- RetryPolicy ------------------------------ *)

NoDelay == -1

Max(a, b) == IF a >= b THEN a ELSE b
Min(a, b) == IF a <= b THEN a ELSE b

\* faulty variant: only a negative max_attempts is refused
post_init_accepts_zero(n) == IF n < 0 THEN "ValueError" ELSE "policy"

\* RetryPolicy.__post_init__: what RetryPolicy(max_attempts=n) gives its caller
post_init(n) == IF n < 1 THEN "ValueError" ELSE "policy"

\* faulty variant: the last permitted attempt is never started
should_retry_off_by_one(policy_max, a) == a < policy_max - 1

\* faulty variant: a retry is still granted after the last permitted attempt
should_retry_inclusive(policy_max, a) == a <= policy_max

should_retry(policy_max, a) == a < policy_max

\* faulty variant: past the end of the list the delays start again (cycled)
delay_for_cycled(dl, next_attempt) ==
    IF Len(dl) = 0 THEN NoDelay
    ELSE dl[(Max(0, next_attempt - 2) % Len(dl)) + 1]

delay_for(dl, next_attempt) ==
    IF Len(dl) = 0 THEN NoDelay
    ELSE LET index == Max(0, Min(next_attempt - 2, Len(dl) - 1))
         IN dl[index + 1]

(* ---------------------------- conversions ----------------------------- *)

isoformat(t) == <<"iso", t>>
Repr(exc) == <<"repr", exc>>
Str(exc) == <<"str", exc>>

(* --------------------------- ActionHistory ---------------------------- *)

coerce_measurement(m) ==
    IF m = NoMeasurement THEN NoMeasurement
    ELSE IF m = NonNumeric THEN NoMeasurement
    ELSE m

Buffer(recs, sid) == IF sid \in DOMAIN recs THEN recs[sid] ELSE <<>>

\* faulty variant: a full buffer refuses the new entry instead of evicting the oldest
deque_append_keeps_oldest(buf, maxlen, entry) ==
    IF Len(buf) >= maxlen THEN buf ELSE Append(buf, entry)

deque_append(buf, maxlen, entry) ==
    IF maxlen = 0 THEN <<>>
    ELSE IF Len(buf) >= maxlen THEN Append(Tail(buf), entry)
    ELSE Append(buf, entry)

\* faulty variant: the entry is put at the front of the buffer (appendleft)
record_outcome_newest_first(recs, maxlen, sid, status, m, metadata, ts) ==
    LET entry == [status |-> status,
                  measurement |-> coerce_measurement(m),
                  metadata |-> metadata,
                  timestamp |-> ts]
        buf == <<entry>> \o Buffer(recs, sid)
    IN (sid :> SubSeq(buf, 1, Min(Len(buf), maxlen))) @@ recs

record_outcome(recs, maxlen, sid, status, m, metadata, ts) ==
    LET entry == [status |-> status,
                  measurement |-> coerce_measurement(m),
                  metadata |-> metadata,
                  timestamp |-> ts]
    IN (sid :> deque_append(Buffer(recs, sid), maxlen, entry)) @@ recs

log_outcome(log, sid, status, m, metadata, ts) ==
    Append(log, [scenario_id |-> sid, status |-> status, measurement |-> m,
                 metadata |-> metadata, timestamp |-> ts])

\* faulty variant: self._records[scenario_id]: the defaultdict inserts an empty
\* deque for a missing key
records_getitem(recs, sid) ==
    [mapping |-> IF sid \in DOMAIN recs THEN recs ELSE (sid :> <<>>) @@ recs,
     value |-> Buffer(recs, sid)]

\* self._records.get(scenario_id, []): get never calls the default factory, so
\* the mapping is left as it is
records_get(recs, sid) == [mapping |-> recs, value |-> Buffer(recs, sid)]

Reverse(s) == [i \in 1..Len(s) |-> s[Len(s) + 1 - i]]

RECURSIVE scan_measurements(_, _, _, _)
scan_measurements(buf, i, acc, limit) ==
    IF i = 0 THEN acc
    ELSE LET acc2 == IF buf[i].measurement # NoMeasurement
                     THEN Append(acc, buf[i].measurement)
                     ELSE acc
         IN IF Len(acc2) >= limit THEN acc2
            ELSE scan_measurements(buf, i - 1, acc2, limit)

recent_measurements(recs, sid, limit) ==
    LET buf == records_get(recs, sid).value
    IN Reverse(scan_measurements(buf, Len(buf), <<>>, limit))

RECURSIVE Sum(_)
Sum(s) == IF Len(s) = 0 THEN 0 ELSE Head(s) + Sum(Tail(s))

\* faulty variant: a history shorter than window - 1 is averaged as it is
detect_ui_drift_short_history(recs, sid, m, window, tolerance) ==
    LET value == coerce_measurement(m)
        history == recent_measurements(recs, sid, window - 1)
    IN IF value = NoMeasurement \/ window < 2 THEN FALSE
       ELSE IF Len(history) = 0 THEN FALSE
       ELSE IF Sum(history) = 0 THEN value > tolerance
       ELSE value * Len(history) > Sum(history) + tolerance * Len(history)

\* faulty variant: a measurement equal to the threshold counts as drift
detect_ui_drift_inclusive(recs, sid, m, window, tolerance) ==
    LET value == coerce_measurement(m)
        history == recent_measurements(recs, sid, window - 1)
    IN IF value = NoMeasurement \/ window < 2 THEN FALSE
       ELSE IF Len(history) < window - 1 THEN FALSE
       ELSE IF Sum(history) = 0 THEN value >= tolerance
       ELSE value * Len(history) >= Sum(history) + tolerance * Len(history)

detect_ui_drift(recs, sid, m, window, tolerance) ==
    LET value == coerce_measurement(m)
        history == recent_measurements(recs, sid, window - 1)
    IN IF value = NoMeasurement \/ window < 2 THEN FALSE
       ELSE IF Len(history) < window - 1 THEN FALSE
       ELSE IF Sum(history) = 0 THEN value > tolerance
       ELSE value * Len(history) > Sum(history) + tolerance * Len(history)

(* ------------- HealingTelemetry and ContextStateManager --------------- *)

record(tel, ts, kind, details) ==
    Append(tel, [timestamp |-> ts, kind |-> kind, details |-> details])

as_dict(tel) ==
    [i \in 1..Len(tel) |-> [timestamp |-> isoformat(tel[i].timestamp),
                            kind |-> tel[i].kind,
                            details |-> tel[i].details]]

\* faulty variant: the entry is appended as given, without the timestamp
append_audit_log_unstamped(log, entry, ts) == Append(log, entry)

append_audit_log(log, entry, ts) ==
    Append(log, IF "timestamp" \in DOMAIN entry THEN entry
                ELSE entry @@ ("timestamp" :> isoformat(ts)))

setdefault(mapping, key, default) ==
    IF key \in DOMAIN mapping THEN mapping ELSE (key :> default) @@ mapping

\* faulty variant: the section is assigned, not setdefault: an existing one is lost
ContextStateManager_fresh_section(ctx) ==
    ("self_healing" :> [audit_log |-> <<>>, telemetry |-> EmptyDict])
        @@ (IF ctx # None THEN ctx ELSE EmptyDict)

\* ContextStateManager(ctx): the mapping it holds after __init__
ContextStateManager(ctx) ==
    setdefault(IF ctx # None THEN ctx ELSE EmptyDict, "self_healing",
               [audit_log |-> <<>>, telemetry |-> EmptyDict])

(* -------------------------- DependencyManager ------------------------- *)

Count(cnt, name) == IF name \in DOMAIN cnt THEN cnt[name] ELSE 0

\* faulty variant: the counter only notes that the name was restarted (set to 1)
increment_count_once(cnt, name) == (name :> 1) @@ cnt

increment_count(cnt, name) == (name :> (Count(cnt, name) + 1)) @@ cnt

telemetry_summary(tel, cnt) ==
    [events |-> as_dict(tel), dependency_restarts |-> cnt]

(* ------------------------------ requests ------------------------------ *)

HealingRequest(sid, hint, plans, strategies, dependencies) ==
    [scenario_id |-> sid,
     target |-> "element",
     metadata |-> [hint |-> hint, healing_plans |-> plans],
     fallback_strategies |-> strategies,
     dependencies |-> dependencies]

NoRequest == HealingRequest("A", 0, 0, <<>>, <<>>)
NoLocatorResult == [plan |-> <<"plan", 0>>, metadata |-> [source |-> "locator"],
                    measurement |-> NoMeasurement]

RequestTemplates ==
    [scenario_id : {"A"}, has_plans : BOOLEAN,
     fallback_strategies : StrategyLists, dependencies : DepLists]

OtherScenario(sid) == IF sid = "A" THEN "B" ELSE "A"
OtherDependencies(d) == IF d = <<"db">> THEN <<"ui">> ELSE <<"db">>

\* What a fallback handler may hand back: nothing, a copy of the request whose
\* metadata is a shallow copy with one caller key changed, or a request that
\* differs in every field and carries a healing_plans list of its own (at
\* address fresh).
HandlerKinds == {"none", "relax", "mutate"}

handler(kind, req, fresh) ==
    CASE kind = "none" -> None
      [] kind = "relax" -> [req EXCEPT !.metadata.hint = 1]
      [] OTHER -> HealingRequest(OtherScenario(req.scenario_id), 1, fresh,
                                 <<"s2", "s1">>,
                                 OtherDependencies(req.dependencies))

\* faulty variant: a handler that returns nothing yields a request without metadata
apply_empty_metadata(updated, req) ==
    IF updated = None
    THEN [req EXCEPT !.metadata.hint = 0, !.metadata.healing_plans = 0]
    ELSE updated

\* FallbackStrategy.apply: request if updated is None else updated
apply(updated, req) == IF updated = None THEN req ELSE updated

(* ------------------------------- Init --------------------------------- *)

\* nothing has been recorded and no run() has been called
FreshEngine ==
    /\ restart_counts = EmptyDict
    /\ records = EmptyDict
    /\ telemetry = <<>>
    /\ clock = 0
    /\ pc = "idle"
    /\ request = NoRequest
    /\ current_request = NoRequest
    /\ fallback_queue = <<>>
    /\ attempt = 0
    /\ last_error = NoError
    /\ locator_result = NoLocatorResult
    /\ dep_index = 0
    /\ strategy = "none"
    /\ outcome = NoOutcome
    /\ runs = 0
    /\ run_start = 0
    /\ audit_start = 0
    /\ counts_start = EmptyDict
    /\ raised_restarts = EmptyDict
    /\ locator_calls = <<>>
    /\ executor_calls = <<>>
    /\ restart_calls = <<>>
    /\ prepared = <<>>
    /\ outcomes = <<>>
    /\ handler_result = None

\* what the engine's process holds besides the engine: no list object yet, no
\* call made yet, no second engine
FreshProcess ==
    /\ heap = <<>>
    /\ answer = NoAnswer
    /\ parked = NoEngine

\* SelfHealingEngine(locator, executor, ...): context_manager or ContextStateManager()
Fresh ==
    /\ context = None
    /\ audit_log = ContextStateManager(None).self_healing.audit_log
    /\ ctx_telemetry = ContextStateManager(None).self_healing.telemetry
    /\ FreshEngine
    /\ FreshProcess

Init ==
    /\ max_attempts \in 1..MaxAttempts
    /\ delays \in DelayChoices
    /\ restarters \in SUBSET Deps
    /\ max_entries = HistoryCapacity
    /\ Fresh

(* ------------------------------- run() -------------------------------- *)

\* faulty variant: every run() starts from an empty telemetry event list
RunResetsTelemetry(tpl) ==
    /\ pc = "idle"
    /\ LET plans == IF tpl.has_plans THEN Len(heap) + 1 ELSE 0
           req == HealingRequest(tpl.scenario_id, 0, plans,
                                 tpl.fallback_strategies, tpl.dependencies)
       IN /\ heap' = IF tpl.has_plans THEN Append(heap, <<SeedMarker>>) ELSE heap
          /\ request' = req
          /\ current_request' = req
          /\ fallback_queue' = req.fallback_strategies
    /\ last_error' = NoError
    /\ attempt' = 1
    /\ pc' = "loop"
    /\ outcome' = NoOutcome
    /\ runs' = runs + 1
    /\ telemetry' = <<>>
    /\ run_start' = 0
    /\ audit_start' = Len(audit_log)
    /\ counts_start' = restart_counts
    /\ raised_restarts' = raised_restarts
    /\ locator_calls' = <<>>
    /\ executor_calls' = <<>>
    /\ restart_calls' = <<>>
    /\ prepared' = <<>>
    /\ UNCHANGED <<config_vars, answer, handler_result, outcomes, restart_counts, records, audit_log,
                   ctx_telemetry, clock, locator_result, dep_index, strategy>>

\* faulty variant: the queue is not rebuilt: run() goes on with what the last run left
RunKeepsQueue(tpl) ==
    /\ pc = "idle"
    /\ LET plans == IF tpl.has_plans THEN Len(heap) + 1 ELSE 0
           req == HealingRequest(tpl.scenario_id, 0, plans,
                                 tpl.fallback_strategies, tpl.dependencies)
       IN /\ heap' = IF tpl.has_plans THEN Append(heap, <<SeedMarker>>) ELSE heap
          /\ request' = req
          /\ current_request' = req
          /\ fallback_queue' = fallback_queue
    /\ last_error' = NoError
    /\ attempt' = 1
    /\ pc' = "loop"
    /\ outcome' = NoOutcome
    /\ runs' = runs + 1
    /\ run_start' = Len(telemetry)
    /\ audit_start' = Len(audit_log)
    /\ counts_start' = restart_counts
    /\ raised_restarts' = raised_restarts
    /\ locator_calls' = <<>>
    /\ executor_calls' = <<>>
    /\ restart_calls' = <<>>
    /\ prepared' = <<>>
    /\ UNCHANGED <<config_vars, answer, handler_result, outcomes, restart_counts, records, telemetry, audit_log,
                   ctx_telemetry, clock, locator_result, dep_index, strategy>>

Run(tpl) ==
    /\ pc = "idle"
    /\ LET plans == IF tpl.has_plans THEN Len(heap) + 1 ELSE 0
           req == HealingRequest(tpl.scenario_id, 0, plans,
                                 tpl.fallback_strategies, tpl.dependencies)
       IN /\ heap' = IF tpl.has_plans THEN Append(heap, <<SeedMarker>>) ELSE heap
          /\ request' = req
          /\ current_request' = req
          /\ fallback_queue' = req.fallback_strategies
    /\ last_error' = NoError
    /\ attempt' = 1
    /\ pc' = "loop"
    /\ outcome' = NoOutcome
    /\ runs' = runs + 1
    /\ run_start' = Len(telemetry)
    /\ audit_start' = Len(audit_log)
    /\ counts_start' = restart_counts
    /\ raised_restarts' = raised_restarts
    /\ locator_calls' = <<>>
    /\ executor_calls' = <<>>
    /\ restart_calls' = <<>>
    /\ prepared' = <<>>
    /\ UNCHANGED <<config_vars, answer, handler_result, outcomes, restart_counts, records, telemetry, audit_log,
                   ctx_telemetry, clock, locator_result, dep_index, strategy>>

\* for attempt in range(1, max_attempts + 1): record attempt_started
LoopHead ==
    /\ pc = "loop"
    /\ IF attempt <= max_attempts
       THEN /\ telemetry' = record(telemetry, clock, "attempt_started",
                                   [scenario_id |-> current_request.scenario_id,
                                    attempt |-> attempt])
            /\ clock' = clock + 1
            /\ pc' = "locate"
       ELSE /\ pc' = "exhausted"
            /\ UNCHANGED <<telemetry, clock>>
    /\ UNCHANGED <<config_vars, answer, handler_result, outcomes, ghost_vars, restart_counts, records, audit_log,
                   ctx_telemetry, heap, request, current_request, fallback_queue,
                   attempt, last_error, locator_result, dep_index, strategy,
                   outcome, locator_calls, executor_calls, restart_calls, prepared>>

\* if should_retry(attempt): _prepare_next_request(current_request, ...) else: break
AfterFailure ==
    IF should_retry(max_attempts, attempt)
    THEN /\ pc' = "restart"
         /\ dep_index' = 1
         /\ prepared' = Append(prepared, [request |-> current_request,
                                         next_attempt |-> attempt + 1])
    ELSE /\ pc' = "exhausted"
         /\ UNCHANGED <<dep_index, prepared>>

\* faulty variant: last_error = last_error or exc, the first failure is kept
LocatorRaisesKeepsFirstError ==
    /\ pc = "locate"
    /\ LET exc == [src |-> "locator", attempt |-> attempt]
           sid == current_request.scenario_id
       IN /\ last_error' = IF last_error = NoError THEN exc ELSE last_error
          /\ telemetry' = record(telemetry, clock, "locator_failed",
                                 [scenario_id |-> sid, attempt |-> attempt,
                                  error |-> Repr(exc)])
          /\ records' = record_outcome(records, max_entries, sid, "failure",
                                       NoMeasurement,
                                       [stage |-> "locator", attempt |-> attempt],
                                       clock + 1)
          /\ outcomes' = log_outcome(outcomes, sid, "failure",
                                       NoMeasurement,
                                       [stage |-> "locator", attempt |-> attempt],
                                       clock + 1)
          /\ audit_log' = append_audit_log(audit_log,
                                 [event |-> "locator_failed", scenario_id |-> sid,
                                  attempt |-> attempt, error |-> Str(exc)],
                                 clock + 2)
    /\ clock' = clock + 3
    /\ locator_calls' = Append(locator_calls, [request |-> current_request,
                                               attempt |-> attempt,
                                               raised |-> TRUE,
                                               measurement |-> NoMeasurement])
    /\ AfterFailure
    /\ UNCHANGED <<config_vars, answer, handler_result, ghost_vars, restart_counts, ctx_telemetry, heap,
                   request, current_request, fallback_queue, attempt,
                   locator_result, strategy, outcome, executor_calls,
                   restart_calls>>

LocatorRaises ==
    /\ pc = "locate"
    /\ LET exc == [src |-> "locator", attempt |-> attempt]
           sid == current_request.scenario_id
       IN /\ last_error' = exc
          /\ telemetry' = record(telemetry, clock, "locator_failed",
                                 [scenario_id |-> sid, attempt |-> attempt,
                                  error |-> Repr(exc)])
          /\ records' = record_outcome(records, max_entries, sid, "failure",
                                       NoMeasurement,
                                       [stage |-> "locator", attempt |-> attempt],
                                       clock + 1)
          /\ outcomes' = log_outcome(outcomes, sid, "failure",
                                       NoMeasurement,
                                       [stage |-> "locator", attempt |-> attempt],
                                       clock + 1)
          /\ audit_log' = append_audit_log(audit_log,
                                 [event |-> "locator_failed", scenario_id |-> sid,
                                  attempt |-> attempt, error |-> Str(exc)],
                                 clock + 2)
    /\ clock' = clock + 3
    /\ locator_calls' = Append(locator_calls, [request |-> current_request,
                                               attempt |-> attempt,
                                               raised |-> TRUE,
                                               measurement |-> NoMeasurement])
    /\ AfterFailure
    /\ UNCHANGED <<config_vars, answer, handler_result, ghost_vars, restart_counts, ctx_telemetry, heap,
                   request, current_request, fallback_queue, attempt,
                   locator_result, strategy, outcome, executor_calls,
                   restart_calls>>

\* faulty variant: after recording the drift the attempt is abandoned (continue)
LocatorReturnsDriftSkipsAttempt(m) ==
    /\ pc = "locate"
    /\ LET result == [plan |-> <<"plan", attempt>>,
                      metadata |-> [source |-> "locator"],
                      measurement |-> m]
           sid == current_request.scenario_id
           drift == detect_ui_drift(records, sid, m, DriftWindow, DriftTolerance)
       IN /\ locator_result' = result
          /\ telemetry' = IF drift
                          THEN record(telemetry, clock, "ui_drift_detected",
                                      [scenario_id |-> sid, attempt |-> attempt,
                                       measurement |-> m])
                          ELSE telemetry
          /\ audit_log' = IF drift
                          THEN append_audit_log(audit_log,
                                      [event |-> "ui_drift_detected",
                                       scenario_id |-> sid, attempt |-> attempt,
                                       measurement |-> m],
                                      clock + 1)
                          ELSE audit_log
          /\ clock' = IF drift THEN clock + 2 ELSE clock
          /\ pc' = IF drift THEN "loop" ELSE "execute"
          /\ attempt' = IF drift THEN attempt + 1 ELSE attempt
    /\ locator_calls' = Append(locator_calls, [request |-> current_request,
                                               attempt |-> attempt,
                                               raised |-> FALSE,
                                               measurement |-> m])
    /\ UNCHANGED <<config_vars, answer, handler_result, outcomes, ghost_vars, restart_counts, records,
                   ctx_telemetry, heap, request, current_request, fallback_queue,
                   last_error, dep_index, strategy, outcome,
                   executor_calls, restart_calls, prepared>>

\* faulty variant: the verdict is computed on a history that already holds the
\* attempt's own measurement
LocatorReturnsDriftAfterOutcome(m) ==
    /\ pc = "locate"
    /\ LET result == [plan |-> <<"plan", attempt>>,
                      metadata |-> [source |-> "locator"],
                      measurement |-> m]
           sid == current_request.scenario_id
           logged == record_outcome(records, max_entries, sid, "success", m,
                                    EmptyDict, clock)
           drift == detect_ui_drift(logged, sid, m, DriftWindow, DriftTolerance)
       IN /\ locator_result' = result
          /\ telemetry' = IF drift
                          THEN record(telemetry, clock, "ui_drift_detected",
                                      [scenario_id |-> sid, attempt |-> attempt,
                                       measurement |-> m])
                          ELSE telemetry
          /\ audit_log' = IF drift
                          THEN append_audit_log(audit_log,
                                      [event |-> "ui_drift_detected",
                                       scenario_id |-> sid, attempt |-> attempt,
                                       measurement |-> m],
                                      clock + 1)
                          ELSE audit_log
          /\ clock' = IF drift THEN clock + 2 ELSE clock
    /\ locator_calls' = Append(locator_calls, [request |-> current_request,
                                               attempt |-> attempt,
                                               raised |-> FALSE,
                                               measurement |-> m])
    /\ pc' = "execute"
    /\ UNCHANGED <<config_vars, answer, handler_result, outcomes, ghost_vars, restart_counts, records,
                   ctx_telemetry, heap, request, current_request, fallback_queue,
                   attempt, last_error, dep_index, strategy, outcome,
                   executor_calls, restart_calls, prepared>>

LocatorReturns(m) ==
    /\ pc = "locate"
    /\ LET result == [plan |-> <<"plan", attempt>>,
                      metadata |-> [source |-> "locator"],
                      measurement |-> m]
           sid == current_request.scenario_id
           drift == detect_ui_drift(records, sid, m, DriftWindow, DriftTolerance)
       IN /\ locator_result' = result
          /\ telemetry' = IF drift
                          THEN record(telemetry, clock, "ui_drift_detected",
                                      [scenario_id |-> sid, attempt |-> attempt,
                                       measurement |-> m])
                          ELSE telemetry
          /\ audit_log' = IF drift
                          THEN append_audit_log(audit_log,
                                      [event |-> "ui_drift_detected",
                                       scenario_id |-> sid, attempt |-> attempt,
                                       measurement |-> m],
                                      clock + 1)
                          ELSE audit_log
          /\ clock' = IF drift THEN clock + 2 ELSE clock
    /\ locator_calls' = Append(locator_calls, [request |-> current_request,
                                               attempt |-> attempt,
                                               raised |-> FALSE,
                                               measurement |-> m])
    /\ pc' = "execute"
    /\ UNCHANGED <<config_vars, answer, handler_result, outcomes, ghost_vars, restart_counts, records,
                   ctx_telemetry, heap, request, current_request, fallback_queue,
                   attempt, last_error, dep_index, strategy, outcome,
                   executor_calls, restart_calls, prepared>>

\* faulty variant: the executor call is not wrapped in try/except, its exception escapes
ExecutorRaisesUncaught ==
    /\ pc = "execute"
    /\ outcome' = [kind |-> "raised",
                   error |-> [src |-> "executor", attempt |-> attempt]]
    /\ executor_calls' = Append(executor_calls, locator_result.plan)
    /\ pc' = "idle"
    /\ UNCHANGED <<config_vars, answer, handler_result, outcomes, ghost_vars, restart_counts, records, telemetry,
                   audit_log, ctx_telemetry, heap, clock, request,
                   current_request, fallback_queue, attempt, last_error,
                   locator_result, dep_index, strategy, locator_calls,
                   restart_calls, prepared>>

\* faulty variant: the executor's failure is logged like the locator's, without
\* the measurement
ExecutorRaisesLogsNoMeasurement ==
    /\ pc = "execute"
    /\ LET exc == [src |-> "executor", attempt |-> attempt]
           sid == current_request.scenario_id
           failure_metadata == [source |-> locator_result.metadata.source,
                                stage |-> "executor", attempt |-> attempt]
       IN /\ last_error' = exc
          /\ telemetry' = record(telemetry, clock, "executor_failed",
                                 [scenario_id |-> sid, attempt |-> attempt,
                                  error |-> Repr(exc)])
          /\ records' = record_outcome(records, max_entries, sid, "failure",
                                       NoMeasurement, failure_metadata, clock + 1)
          /\ outcomes' = log_outcome(outcomes, sid, "failure",
                                       NoMeasurement, failure_metadata, clock + 1)
          /\ audit_log' = append_audit_log(audit_log,
                                 [event |-> "executor_failed", scenario_id |-> sid,
                                  attempt |-> attempt, error |-> Str(exc)],
                                 clock + 2)
    /\ clock' = clock + 3
    /\ executor_calls' = Append(executor_calls, locator_result.plan)
    /\ AfterFailure
    /\ UNCHANGED <<config_vars, answer, handler_result, ghost_vars, restart_counts, ctx_telemetry, heap,
                   request, current_request, fallback_queue, attempt,
                   locator_result, strategy, outcome, locator_calls,
                   restart_calls>>

ExecutorRaises ==
    /\ pc = "execute"
    /\ LET exc == [src |-> "executor", attempt |-> attempt]
           sid == current_request.scenario_id
           failure_metadata == [source |-> locator_result.metadata.source,
                                stage |-> "executor", attempt |-> attempt]
       IN /\ last_error' = exc
          /\ telemetry' = record(telemetry, clock, "executor_failed",
                                 [scenario_id |-> sid, attempt |-> attempt,
                                  error |-> Repr(exc)])
          /\ records' = record_outcome(records, max_entries, sid, "failure",
                                       locator_result.measurement,
                                       failure_metadata, clock + 1)
          /\ outcomes' = log_outcome(outcomes, sid, "failure",
                                       locator_result.measurement,
                                       failure_metadata, clock + 1)
          /\ audit_log' = append_audit_log(audit_log,
                                 [event |-> "executor_failed", scenario_id |-> sid,
                                  attempt |-> attempt, error |-> Str(exc)],
                                 clock + 2)
    /\ clock' = clock + 3
    /\ executor_calls' = Append(executor_calls, locator_result.plan)
    /\ AfterFailure
    /\ UNCHANGED <<config_vars, answer, handler_result, ghost_vars, restart_counts, ctx_telemetry, heap,
                   request, current_request, fallback_queue, attempt,
                   locator_result, strategy, outcome, locator_calls,
                   restart_calls>>

\* faulty variant: break instead of return after a successful execution
ExecutorReturnsBreaks ==
    /\ pc = "execute"
    /\ LET sid == current_request.scenario_id
           success_metadata == [source |-> locator_result.metadata.source,
                                stage |-> "executor", attempt |-> attempt]
           tel == record(telemetry, clock + 1, "healing_success",
                         [scenario_id |-> sid, attempt |-> attempt])
       IN /\ records' = record_outcome(records, max_entries, sid, "success",
                                       locator_result.measurement,
                                       success_metadata, clock)
          /\ outcomes' = log_outcome(outcomes, sid, "success",
                                       locator_result.measurement,
                                       success_metadata, clock)
          /\ telemetry' = tel
          /\ audit_log' = append_audit_log(audit_log,
                                 [event |-> "healing_success", scenario_id |-> sid,
                                  attempt |-> attempt],
                                 clock + 2)
          /\ ctx_telemetry' = telemetry_summary(tel, restart_counts)
    /\ clock' = clock + 3
    /\ executor_calls' = Append(executor_calls, locator_result.plan)
    /\ pc' = "exhausted"
    /\ UNCHANGED <<config_vars, answer, handler_result, ghost_vars, restart_counts, heap, request,
                   current_request, fallback_queue, attempt, last_error,
                   locator_result, dep_index, strategy, outcome, locator_calls,
                   restart_calls, prepared>>

ExecutorReturns ==
    /\ pc = "execute"
    /\ LET execution_result == [result_of |-> locator_result.plan]
           sid == current_request.scenario_id
           success_metadata == [source |-> locator_result.metadata.source,
                                stage |-> "executor", attempt |-> attempt]
           tel == record(telemetry, clock + 1, "healing_success",
                         [scenario_id |-> sid, attempt |-> attempt])
       IN /\ records' = record_outcome(records, max_entries, sid, "success",
                                       locator_result.measurement,
                                       success_metadata, clock)
          /\ outcomes' = log_outcome(outcomes, sid, "success",
                                       locator_result.measurement,
                                       success_metadata, clock)
          /\ telemetry' = tel
          /\ audit_log' = append_audit_log(audit_log,
                                 [event |-> "healing_success", scenario_id |-> sid,
                                  attempt |-> attempt],
                                 clock + 2)
          /\ ctx_telemetry' = telemetry_summary(tel, restart_counts)
          /\ outcome' = [kind |-> "returned", value |-> execution_result]
    /\ clock' = clock + 3
    /\ executor_calls' = Append(executor_calls, locator_result.plan)
    /\ pc' = "idle"
    /\ UNCHANGED <<config_vars, answer, handler_result, ghost_vars, restart_counts, heap, request,
                   current_request, fallback_queue, attempt, last_error,
                   locator_result, dep_index, strategy, locator_calls,
                   restart_calls, prepared>>

(* ---------------------- _prepare_next_request ------------------------- *)

\* faulty variant: dependencies are restarted only while preparing the first retry
RestartDependencyFirstRetryOnly ==
    /\ pc = "restart"
    /\ dep_index <= Len(current_request.dependencies)
    /\ LET dependency == current_request.dependencies[dep_index]
           next_attempt == attempt + 1
           sid == current_request.scenario_id
           restarted == dependency \in restarters
       IN IF attempt > 1
          THEN UNCHANGED <<restart_counts, restart_calls, telemetry, audit_log,
                           clock>>
          ELSE /\ restart_counts' = increment_count(restart_counts, dependency)
               /\ restart_calls' = Append(restart_calls, [name |-> dependency,
                                                          attempt |-> next_attempt,
                                                          raised |-> FALSE])
               /\ telemetry' = record(telemetry, clock, "dependency_restarted",
                                      [scenario_id |-> sid, attempt |-> next_attempt,
                                       dependency |-> dependency,
                                       restarted |-> restarted])
               /\ audit_log' = append_audit_log(audit_log,
                                      [event |-> "dependency_restarted",
                                       scenario_id |-> sid, attempt |-> next_attempt,
                                       dependency |-> dependency,
                                       restarted |-> restarted],
                                      clock + 1)
               /\ clock' = clock + 2
    /\ dep_index' = dep_index + 1
    /\ UNCHANGED <<config_vars, answer, handler_result, outcomes, ghost_vars, records, ctx_telemetry, heap, pc,
                   request, current_request, fallback_queue, attempt, last_error,
                   locator_result, strategy, outcome, locator_calls,
                   executor_calls, prepared>>

\* faulty variant: restart() looks the callback up first and counts only when there is one
RestartDependencyCountsCallbacksOnly ==
    /\ pc = "restart"
    /\ dep_index <= Len(current_request.dependencies)
    /\ LET dependency == current_request.dependencies[dep_index]
           next_attempt == attempt + 1
           sid == current_request.scenario_id
           restarted == dependency \in restarters
       IN /\ restart_counts' = IF restarted
                               THEN increment_count(restart_counts, dependency)
                               ELSE restart_counts
          /\ restart_calls' = Append(restart_calls, [name |-> dependency,
                                                     attempt |-> next_attempt,
                                                     raised |-> FALSE])
          /\ telemetry' = record(telemetry, clock, "dependency_restarted",
                                 [scenario_id |-> sid, attempt |-> next_attempt,
                                  dependency |-> dependency,
                                  restarted |-> restarted])
          /\ audit_log' = append_audit_log(audit_log,
                                 [event |-> "dependency_restarted",
                                  scenario_id |-> sid, attempt |-> next_attempt,
                                  dependency |-> dependency,
                                  restarted |-> restarted],
                                 clock + 1)
    /\ clock' = clock + 2
    /\ dep_index' = dep_index + 1
    /\ UNCHANGED <<config_vars, answer, handler_result, outcomes, ghost_vars, records, ctx_telemetry, heap, pc,
                   request, current_request, fallback_queue, attempt, last_error,
                   locator_result, strategy, outcome, locator_calls,
                   executor_calls, prepared>>

\* _maybe_restart_dependencies: one iteration of the for loop whose
\* DependencyManager.restart call returns (no callback, or the callback completes)
RestartDependency ==
    /\ pc = "restart"
    /\ dep_index <= Len(current_request.dependencies)
    /\ LET dependency == current_request.dependencies[dep_index]
           next_attempt == attempt + 1
           sid == current_request.scenario_id
           restarted == dependency \in restarters
       IN /\ restart_counts' = increment_count(restart_counts, dependency)
          /\ restart_calls' = Append(restart_calls, [name |-> dependency,
                                                     attempt |-> next_attempt,
                                                     raised |-> FALSE])
          /\ telemetry' = record(telemetry, clock, "dependency_restarted",
                                 [scenario_id |-> sid, attempt |-> next_attempt,
                                  dependency |-> dependency,
                                  restarted |-> restarted])
          /\ audit_log' = append_audit_log(audit_log,
                                 [event |-> "dependency_restarted",
                                  scenario_id |-> sid, attempt |-> next_attempt,
                                  dependency |-> dependency,
                                  restarted |-> restarted],
                                 clock + 1)
    /\ clock' = clock + 2
    /\ dep_index' = dep_index + 1
    /\ UNCHANGED <<config_vars, answer, handler_result, outcomes, ghost_vars, records, ctx_telemetry, heap, pc,
                   request, current_request, fallback_queue, attempt, last_error,
                   locator_result, strategy, outcome, locator_calls,
                   executor_calls, prepared>>

\* faulty variant: restart() catches the callback's exception and reports False
RestartCallbackCaught ==
    /\ pc = "restart"
    /\ dep_index <= Len(current_request.dependencies)
    /\ LET dependency == current_request.dependencies[dep_index]
           next_attempt == attempt + 1
           sid == current_request.scenario_id
       IN /\ dependency \in restarters
          /\ restart_counts' = increment_count(restart_counts, dependency)
          /\ restart_calls' = Append(restart_calls, [name |-> dependency,
                                                     attempt |-> next_attempt,
                                                     raised |-> TRUE])
          /\ telemetry' = record(telemetry, clock, "dependency_restarted",
                                 [scenario_id |-> sid, attempt |-> next_attempt,
                                  dependency |-> dependency, restarted |-> FALSE])
          /\ audit_log' = append_audit_log(audit_log,
                                 [event |-> "dependency_restarted",
                                  scenario_id |-> sid, attempt |-> next_attempt,
                                  dependency |-> dependency, restarted |-> FALSE],
                                 clock + 1)
    /\ clock' = clock + 2
    /\ dep_index' = dep_index + 1
    /\ UNCHANGED <<config_vars, answer, handler_result, outcomes, ghost_vars, records, ctx_telemetry, heap, pc,
                   request, current_request, fallback_queue, attempt, last_error,
                   locator_result, strategy, outcome, locator_calls,
                   executor_calls, prepared>>

\* faulty variant: the callback is invoked before the counter is incremented
RestartCallbackRaisesUncounted ==
    /\ pc = "restart"
    /\ dep_index <= Len(current_request.dependencies)
    /\ LET dependency == current_request.dependencies[dep_index]
       IN /\ dependency \in restarters
          /\ restart_counts' = restart_counts
          /\ restart_calls' = Append(restart_calls, [name |-> dependency,
                                                     attempt |-> attempt + 1,
                                                     raised |-> TRUE])
          /\ outcome' = [kind |-> "raised",
                         error |-> [src |-> "restart_callback",
                                    dependency |-> dependency,
                                    attempt |-> attempt + 1]]
          /\ raised_restarts' =
                 (dependency :> (Count(raised_restarts, dependency) + 1))
                     @@ raised_restarts
    /\ pc' = "idle"
    /\ UNCHANGED <<config_vars, answer, handler_result, outcomes, runs, run_start,
                   audit_start, counts_start, records, telemetry, audit_log,
                   ctx_telemetry, heap, clock, request, current_request,
                   fallback_queue, attempt, last_error, locator_result,
                   dep_index, strategy, locator_calls, executor_calls, prepared>>

\* DependencyManager.restart: the registered callback raises; nothing catches it
RestartCallbackRaises ==
    /\ pc = "restart"
    /\ dep_index <= Len(current_request.dependencies)
    /\ LET dependency == current_request.dependencies[dep_index]
       IN /\ dependency \in restarters
          /\ restart_counts' = increment_count(restart_counts, dependency)
          /\ restart_calls' = Append(restart_calls, [name |-> dependency,
                                                     attempt |-> attempt + 1,
                                                     raised |-> TRUE])
          /\ outcome' = [kind |-> "raised",
                         error |-> [src |-> "restart_callback",
                                    dependency |-> dependency,
                                    attempt |-> attempt + 1]]
          /\ raised_restarts' =
                 (dependency :> (Count(raised_restarts, dependency) + 1))
                     @@ raised_restarts
    /\ pc' = "idle"
    /\ UNCHANGED <<config_vars, answer, handler_result, outcomes, runs, run_start,
                   audit_start, counts_start, records, telemetry, audit_log,
                   ctx_telemetry, heap, clock, request, current_request,
                   fallback_queue, attempt, last_error, locator_result,
                   dep_index, strategy, locator_calls, executor_calls, prepared>>

\* faulty variant: retry_scheduled carries the number of the attempt that just failed
ScheduledForFailedAttempt(tel, log, clk, req, next_attempt) ==
    LET delay == delay_for(delays, next_attempt)
    IN IF delay # NoDelay
       THEN [tel |-> record(tel, clk, "retry_scheduled",
                            [scenario_id |-> req.scenario_id,
                             attempt |-> next_attempt - 1, delay |-> delay]),
             log |-> append_audit_log(log,
                            [event |-> "retry_scheduled",
                             scenario_id |-> req.scenario_id,
                             attempt |-> next_attempt - 1, delay |-> delay],
                            clk + 1),
             clk |-> clk + 2]
       ELSE [tel |-> tel, log |-> log, clk |-> clk]

\* faulty variant: retry_scheduled is recorded also when the policy has no delay
ScheduledAlways(tel, log, clk, req, next_attempt) ==
    LET delay == delay_for(delays, next_attempt)
    IN [tel |-> record(tel, clk, "retry_scheduled",
                       [scenario_id |-> req.scenario_id,
                        attempt |-> next_attempt, delay |-> delay]),
        log |-> append_audit_log(log,
                       [event |-> "retry_scheduled",
                        scenario_id |-> req.scenario_id,
                        attempt |-> next_attempt, delay |-> delay],
                       clk + 1),
        clk |-> clk + 2]

\* delay = delay_for(next_attempt); if delay is not None: record retry_scheduled
Scheduled(tel, log, clk, req, next_attempt) ==
    LET delay == delay_for(delays, next_attempt)
    IN IF delay # NoDelay
       THEN [tel |-> record(tel, clk, "retry_scheduled",
                            [scenario_id |-> req.scenario_id,
                             attempt |-> next_attempt, delay |-> delay]),
             log |-> append_audit_log(log,
                            [event |-> "retry_scheduled",
                             scenario_id |-> req.scenario_id,
                             attempt |-> next_attempt, delay |-> delay],
                            clk + 1),
             clk |-> clk + 2]
       ELSE [tel |-> tel, log |-> log, clk |-> clk]

\* faulty variant: fallback_considered is written to the audit log as well
ConsiderFallbackAudited ==
    /\ pc = "restart"
    /\ dep_index > Len(current_request.dependencies)
    /\ fallback_queue # <<>>
    /\ LET s == Scheduled(telemetry, audit_log, clock, current_request, attempt + 1)
       IN /\ strategy' = Head(fallback_queue)
          /\ fallback_queue' = Tail(fallback_queue)
          /\ telemetry' = record(s.tel, s.clk, "fallback_considered",
                                 [scenario_id |-> current_request.scenario_id,
                                  attempt |-> attempt + 1,
                                  strategy |-> Head(fallback_queue)])
          /\ audit_log' = append_audit_log(s.log,
                                 [event |-> "fallback_considered",
                                  scenario_id |-> current_request.scenario_id,
                                  attempt |-> attempt + 1,
                                  strategy |-> Head(fallback_queue)],
                                 s.clk + 1)
          /\ clock' = s.clk + 2
    /\ pc' = "fallback"
    /\ UNCHANGED <<config_vars, answer, handler_result, outcomes, ghost_vars, restart_counts, records,
                   ctx_telemetry, heap, request, current_request, attempt,
                   last_error, locator_result, dep_index, outcome,
                   locator_calls, executor_calls, restart_calls, prepared>>

\* if fallback_queue: popleft, record fallback_considered, call the handler
ConsiderFallback ==
    /\ pc = "restart"
    /\ dep_index > Len(current_request.dependencies)
    /\ fallback_queue # <<>>
    /\ LET s == Scheduled(telemetry, audit_log, clock, current_request, attempt + 1)
       IN /\ strategy' = Head(fallback_queue)
          /\ fallback_queue' = Tail(fallback_queue)
          /\ telemetry' = record(s.tel, s.clk, "fallback_considered",
                                 [scenario_id |-> current_request.scenario_id,
                                  attempt |-> attempt + 1,
                                  strategy |-> Head(fallback_queue)])
          /\ audit_log' = s.log
          /\ clock' = s.clk + 1
    /\ pc' = "fallback"
    /\ UNCHANGED <<config_vars, answer, handler_result, outcomes, ghost_vars, restart_counts, records,
                   ctx_telemetry, heap, request, current_request, attempt,
                   last_error, locator_result, dep_index, outcome,
                   locator_calls, executor_calls, restart_calls, prepared>>

\* faulty variant: fallback_applied reaches the audit log but not the telemetry
HandlerReturnsUnrecorded(kind) ==
    /\ pc = "fallback"
    /\ LET fresh == Len(heap) + 1
           updated_request == apply(handler(kind, current_request, fresh),
                                    current_request)
           sid == current_request.scenario_id
       IN /\ heap' = IF kind = "mutate" THEN Append(heap, <<SeedMarker>>) ELSE heap
          /\ audit_log' = append_audit_log(audit_log,
                                 [event |-> "fallback_applied", scenario_id |-> sid,
                                  attempt |-> attempt + 1, strategy |-> strategy],
                                 clock + 1)
          /\ current_request' = updated_request
          /\ ctx_telemetry' = telemetry_summary(telemetry, restart_counts)
    /\ clock' = clock + 2
    /\ attempt' = attempt + 1
    /\ pc' = "loop"
    /\ UNCHANGED <<config_vars, answer, handler_result, outcomes, ghost_vars, restart_counts, records, telemetry,
                   request, fallback_queue, last_error, locator_result, dep_index,
                   strategy, outcome, locator_calls, executor_calls,
                   restart_calls, prepared>>

\* faulty variant: the queue is rebuilt from the request the strategy returned
HandlerReturnsRequeues(kind) ==
    /\ pc = "fallback"
    /\ LET fresh == Len(heap) + 1
           updated_request == apply(handler(kind, current_request, fresh),
                                    current_request)
           sid == current_request.scenario_id
           tel == record(telemetry, clock, "fallback_applied",
                         [scenario_id |-> sid, attempt |-> attempt + 1,
                          strategy |-> strategy])
       IN /\ heap' = IF kind = "mutate" THEN Append(heap, <<SeedMarker>>) ELSE heap
          /\ telemetry' = tel
          /\ audit_log' = append_audit_log(audit_log,
                                 [event |-> "fallback_applied", scenario_id |-> sid,
                                  attempt |-> attempt + 1, strategy |-> strategy],
                                 clock + 1)
          /\ current_request' = updated_request
          /\ fallback_queue' = updated_request.fallback_strategies
          /\ ctx_telemetry' = telemetry_summary(tel, restart_counts)
    /\ clock' = clock + 2
    /\ attempt' = attempt + 1
    /\ pc' = "loop"
    /\ UNCHANGED <<config_vars, answer, handler_result, outcomes, ghost_vars, restart_counts, records, request,
                   last_error, locator_result, dep_index, strategy, outcome,
                   locator_calls, executor_calls, restart_calls, prepared>>

\* faulty variant: the request the handler returned is dropped; the next attempt
\* uses the request of the failed attempt
HandlerReturnsDiscarded(kind) ==
    /\ pc = "fallback"
    /\ LET fresh == Len(heap) + 1
           sid == current_request.scenario_id
           tel == record(telemetry, clock, "fallback_applied",
                         [scenario_id |-> sid, attempt |-> attempt + 1,
                          strategy |-> strategy])
       IN /\ heap' = IF kind = "mutate" THEN Append(heap, <<SeedMarker>>) ELSE heap
          /\ telemetry' = tel
          /\ audit_log' = append_audit_log(audit_log,
                                 [event |-> "fallback_applied", scenario_id |-> sid,
                                  attempt |-> attempt + 1, strategy |-> strategy],
                                 clock + 1)
          /\ handler_result' = handler(kind, current_request, fresh)
          /\ ctx_telemetry' = telemetry_summary(tel, restart_counts)
    /\ clock' = clock + 2
    /\ attempt' = attempt + 1
    /\ pc' = "loop"
    /\ UNCHANGED <<config_vars, answer, outcomes, ghost_vars, restart_counts, records, request,
                   current_request, fallback_queue, last_error, locator_result,
                   dep_index, strategy, outcome, locator_calls, executor_calls,
                   restart_calls, prepared>>

\* faulty variant: fallback_applied carries the number of the attempt that failed
HandlerReturnsStaleAttempt(kind) ==
    /\ pc = "fallback"
    /\ LET fresh == Len(heap) + 1
           updated_request == apply(handler(kind, current_request, fresh),
                                    current_request)
           sid == current_request.scenario_id
           tel == record(telemetry, clock, "fallback_applied",
                         [scenario_id |-> sid, attempt |-> attempt,
                          strategy |-> strategy])
       IN /\ heap' = IF kind = "mutate" THEN Append(heap, <<SeedMarker>>) ELSE heap
          /\ telemetry' = tel
          /\ audit_log' = append_audit_log(audit_log,
                                 [event |-> "fallback_applied", scenario_id |-> sid,
                                  attempt |-> attempt + 1, strategy |-> strategy],
                                 clock + 1)
          /\ handler_result' = handler(kind, current_request, fresh)
          /\ current_request' = updated_request
          /\ ctx_telemetry' = telemetry_summary(tel, restart_counts)
    /\ clock' = clock + 2
    /\ attempt' = attempt + 1
    /\ pc' = "loop"
    /\ UNCHANGED <<config_vars, answer, outcomes, ghost_vars, restart_counts, records, request,
                   fallback_queue, last_error, locator_result, dep_index,
                   strategy, outcome, locator_calls, executor_calls,
                   restart_calls, prepared>>

\* strategy.apply returns: record fallback_applied, return updated_request;
\* back in run(): _update_context_telemetry(); continue
HandlerReturns(kind) ==
    /\ pc = "fallback"
    /\ LET fresh == Len(heap) + 1
           updated_request == apply(handler(kind, current_request, fresh),
                                    current_request)
           sid == current_request.scenario_id
           tel == record(telemetry, clock, "fallback_applied",
                         [scenario_id |-> sid, attempt |-> attempt + 1,
                          strategy |-> strategy])
       IN /\ heap' = IF kind = "mutate" THEN Append(heap, <<SeedMarker>>) ELSE heap
          /\ telemetry' = tel
          /\ audit_log' = append_audit_log(audit_log,
                                 [event |-> "fallback_applied", scenario_id |-> sid,
                                  attempt |-> attempt + 1, strategy |-> strategy],
                                 clock + 1)
          /\ handler_result' = handler(kind, current_request, fresh)
          /\ current_request' = updated_request
          /\ ctx_telemetry' = telemetry_summary(tel, restart_counts)
    /\ clock' = clock + 2
    /\ attempt' = attempt + 1
    /\ pc' = "loop"
    /\ UNCHANGED <<config_vars, answer, outcomes, ghost_vars, restart_counts, records, request,
                   fallback_queue, last_error, locator_result, dep_index,
                   strategy, outcome, locator_calls, executor_calls,
                   restart_calls, prepared>>

\* the handler raises: neither apply, _prepare_next_request nor run() catches it
HandlerRaises ==
    /\ pc = "fallback"
    /\ outcome' = [kind |-> "raised",
                   error |-> [src |-> "handler", strategy |-> strategy,
                              attempt |-> attempt + 1]]
    /\ pc' = "idle"
    /\ UNCHANGED <<config_vars, answer, handler_result, outcomes, ghost_vars, restart_counts, records, telemetry,
                   audit_log, ctx_telemetry, heap, clock, request,
                   current_request, fallback_queue, attempt, last_error,
                   locator_result, dep_index, strategy, locator_calls,
                   executor_calls, restart_calls, prepared>>

\* faulty variant: the marker list is replaced by a list holding only the new marker
ReplanOverwrites ==
    /\ pc = "restart"
    /\ dep_index > Len(current_request.dependencies)
    /\ fallback_queue = <<>>
    /\ LET s == Scheduled(telemetry, audit_log, clock, current_request, attempt + 1)
           next_attempt == attempt + 1
           sid == current_request.scenario_id
           marker == [type |-> "replan", attempt |-> next_attempt,
                      timestamp |-> isoformat(s.clk)]
           tel == record(s.tel, s.clk + 1, "replan_applied",
                         [scenario_id |-> sid, attempt |-> next_attempt])
       IN /\ heap' = Append(heap, <<marker>>)
          /\ current_request' =
                 [current_request EXCEPT !.metadata.healing_plans = Len(heap) + 1]
          /\ telemetry' = tel
          /\ audit_log' = append_audit_log(s.log,
                                 [event |-> "replan_applied", scenario_id |-> sid,
                                  attempt |-> next_attempt],
                                 s.clk + 2)
          /\ ctx_telemetry' = telemetry_summary(tel, restart_counts)
          /\ clock' = s.clk + 3
    /\ attempt' = attempt + 1
    /\ pc' = "loop"
    /\ UNCHANGED <<config_vars, answer, handler_result, outcomes, ghost_vars, restart_counts, records, request,
                   fallback_queue, last_error, locator_result, dep_index,
                   strategy, outcome, locator_calls, executor_calls,
                   restart_calls, prepared>>

\* _replan: the marker goes into the list the copied metadata refers to
Replan ==
    /\ pc = "restart"
    /\ dep_index > Len(current_request.dependencies)
    /\ fallback_queue = <<>>
    /\ LET s == Scheduled(telemetry, audit_log, clock, current_request, attempt + 1)
           next_attempt == attempt + 1
           sid == current_request.scenario_id
           existing == current_request.metadata.healing_plans
           adjustments == IF existing = 0 THEN Len(heap) + 1 ELSE existing
           marker == [type |-> "replan", attempt |-> next_attempt,
                      timestamp |-> isoformat(s.clk)]
           tel == record(s.tel, s.clk + 1, "replan_applied",
                         [scenario_id |-> sid, attempt |-> next_attempt])
       IN /\ heap' = IF existing = 0 THEN Append(heap, <<marker>>)
                     ELSE [heap EXCEPT ![existing] = Append(@, marker)]
          /\ current_request' =
                 [current_request EXCEPT !.metadata.healing_plans = adjustments]
          /\ telemetry' = tel
          /\ audit_log' = append_audit_log(s.log,
                                 [event |-> "replan_applied", scenario_id |-> sid,
                                  attempt |-> next_attempt],
                                 s.clk + 2)
          /\ ctx_telemetry' = telemetry_summary(tel, restart_counts)
          /\ clock' = s.clk + 3
    /\ attempt' = attempt + 1
    /\ pc' = "loop"
    /\ UNCHANGED <<config_vars, answer, handler_result, outcomes, ghost_vars, restart_counts, records, request,
                   fallback_queue, last_error, locator_result, dep_index,
                   strategy, outcome, locator_calls, executor_calls,
                   restart_calls, prepared>>

\* faulty variant: the terminal records and the error name the scenario of the
\* request the last attempt used
RecoveryFailedCurrentRequest ==
    /\ pc = "exhausted"
    /\ LET tel == record(telemetry, clock, "recovery_failed",
                         [scenario_id |-> current_request.scenario_id,
                          attempts |-> max_attempts,
                          error |-> IF last_error # NoError
                                    THEN Repr(last_error) ELSE None])
       IN /\ telemetry' = tel
          /\ audit_log' = append_audit_log(audit_log,
                                 [event |-> "recovery_failed",
                                  scenario_id |-> current_request.scenario_id,
                                  attempts |-> max_attempts,
                                  error |-> IF last_error # NoError
                                            THEN Str(last_error) ELSE None],
                                 clock + 1)
          /\ ctx_telemetry' = telemetry_summary(tel, restart_counts)
    /\ clock' = clock + 2
    /\ outcome' = [kind |-> "raised",
                   error |-> [src |-> "SelfHealingError",
                              scenario_id |-> current_request.scenario_id,
                              last_error |-> last_error]]
    /\ pc' = "idle"
    /\ UNCHANGED <<config_vars, answer, handler_result, outcomes, ghost_vars, restart_counts, records, heap,
                   request, current_request, fallback_queue, attempt, last_error,
                   locator_result, dep_index, strategy, locator_calls,
                   executor_calls, restart_calls, prepared>>

\* faulty variant: the context snapshot is taken before recovery_failed is recorded
RecoveryFailedStaleSnapshot ==
    /\ pc = "exhausted"
    /\ LET tel == record(telemetry, clock, "recovery_failed",
                         [scenario_id |-> request.scenario_id,
                          attempts |-> max_attempts,
                          error |-> IF last_error # NoError
                                    THEN Repr(last_error) ELSE None])
       IN /\ telemetry' = tel
          /\ audit_log' = append_audit_log(audit_log,
                                 [event |-> "recovery_failed",
                                  scenario_id |-> request.scenario_id,
                                  attempts |-> max_attempts,
                                  error |-> IF last_error # NoError
                                            THEN Str(last_error) ELSE None],
                                 clock + 1)
          /\ ctx_telemetry' = telemetry_summary(telemetry, restart_counts)
    /\ clock' = clock + 2
    /\ outcome' = [kind |-> "raised",
                   error |-> [src |-> "SelfHealingError",
                              scenario_id |-> request.scenario_id,
                              last_error |-> last_error]]
    /\ pc' = "idle"
    /\ UNCHANGED <<config_vars, answer, handler_result, outcomes, ghost_vars, restart_counts, records, heap,
                   request, current_request, fallback_queue, attempt, last_error,
                   locator_result, dep_index, strategy, locator_calls,
                   executor_calls, restart_calls, prepared>>

\* faulty variant: after the last attempt the run waits instead of raising
RecoveryFailedWaits ==
    /\ pc = "exhausted"
    /\ UNCHANGED vars

\* after the loop: record recovery_failed, raise SelfHealingError
RecoveryFailed ==
    /\ pc = "exhausted"
    /\ LET tel == record(telemetry, clock, "recovery_failed",
                         [scenario_id |-> request.scenario_id,
                          attempts |-> max_attempts,
                          error |-> IF last_error # NoError
                                    THEN Repr(last_error) ELSE None])
       IN /\ telemetry' = tel
          /\ audit_log' = append_audit_log(audit_log,
                                 [event |-> "recovery_failed",
                                  scenario_id |-> request.scenario_id,
                                  attempts |-> max_attempts,
                                  error |-> IF last_error # NoError
                                            THEN Str(last_error) ELSE None],
                                 clock + 1)
          /\ ctx_telemetry' = telemetry_summary(tel, restart_counts)
    /\ clock' = clock + 2
    /\ outcome' = [kind |-> "raised",
                   error |-> [src |-> "SelfHealingError",
                              scenario_id |-> request.scenario_id,
                              last_error |-> last_error]]
    /\ pc' = "idle"
    /\ UNCHANGED <<config_vars, answer, handler_result, outcomes, ghost_vars, restart_counts, records, heap,
                   request, current_request, fallback_queue, attempt, last_error,
                   locator_result, dep_index, strategy, locator_calls,
                   executor_calls, restart_calls, prepared>>

\* every step of run() after its entry
Step ==
    \/ LoopHead
    \/ LocatorRaises
    \/ \E m \in Measurements : LocatorReturns(m)
    \/ ExecutorRaises
    \/ ExecutorReturns
    \/ RestartDependency
    \/ RestartCallbackRaises
    \/ ConsiderFallback
    \/ \E kind \in HandlerKinds : HandlerReturns(kind)
    \/ HandlerRaises
    \/ Replan
    \/ RecoveryFailed

Next ==
    \/ \E tpl \in RequestTemplates : runs < MaxRuns /\ Run(tpl)
    \/ LoopHead
    \/ LocatorRaises
    \/ \E m \in Measurements : LocatorReturns(m)
    \/ ExecutorRaises
    \/ ExecutorReturns
    \/ RestartDependency
    \/ RestartCallbackRaises
    \/ ConsiderFallback
    \/ \E kind \in HandlerKinds : HandlerReturns(kind)
    \/ HandlerRaises
    \/ Replan
    \/ RecoveryFailed

Spec == Init /\ [][Next]_vars

(* ------------- several run() calls on one engine, one after another ------------- *)

RunTemplates ==
    [scenario_id : {"A"}, has_plans : {FALSE},
     fallback_strategies : {<<>>, <<"s1">>}, dependencies : {<<>>, <<"db">>}]

InitRuns ==
    /\ Init
    /\ max_attempts < MaxAttempts
    /\ delays = <<>>
    /\ restarters = {"db"}

NextRuns ==
    \/ \E tpl \in RunTemplates : runs < MaxRuns + MoreRuns /\ Run(tpl)
    \/ Step

SpecRuns == InitRuns /\ [][NextRuns]_vars

(* ------------------- observations of the current run ------------------ *)

(* ---------------- an ActionHistory used directly by its owner ---------------- *)

Statuses == {"success", "failure"}

InitHistory ==
    /\ max_attempts = 1
    /\ delays = <<>>
    /\ restarters = {}
    /\ max_entries \in 0..MaxCapacity
    /\ Fresh

\* history.record_outcome(sid, status, m, {})
RecordOutcome(sid, status, m) ==
    /\ pc = "idle"
    /\ records' = record_outcome(records, max_entries, sid, status, m,
                                 EmptyDict, clock)
    /\ outcomes' = log_outcome(outcomes, sid, status, m, EmptyDict, clock)
    /\ clock' = clock + 1
    /\ UNCHANGED <<config_vars, answer, handler_result, ghost_vars, restart_counts, telemetry, audit_log,
                   ctx_telemetry, heap, pc, request, current_request,
                   fallback_queue, attempt, last_error, locator_result,
                   dep_index, strategy, outcome, locator_calls, executor_calls,
                   restart_calls, prepared>>

NextHistory ==
    \E sid \in Scenarios, status \in Statuses, m \in Measurements :
        Len(outcomes) < MaxOutcomes /\ RecordOutcome(sid, status, m)

SpecHistory == InitHistory /\ [][NextHistory]_vars


(* ------------- the queries of an ActionHistory, called directly ------------- *)

MaxLimit == 3
MaxWindow == 4

\* everything but the answer: a query changes none of it
engine_vars == <<config_vars, ghost_vars, restart_counts, records, telemetry,
                 audit_log, ctx_telemetry, heap, clock, pc, request,
                 current_request, fallback_queue, attempt, last_error,
                 locator_result, dep_index, strategy, outcome, locator_calls,
                 executor_calls, restart_calls, prepared, outcomes,
                 handler_result>>

\* the (status, measurement) pairs recorded before the queries
QueryOutcomes == {<<"success", 0>>, <<"success", 2>>, <<"success", 3>>,
                  <<"failure", NoMeasurement>>}
QueryMeasurements == {NoMeasurement, NonNumeric, 0, 5, 7, 8, 15}
Windows == 0..MaxWindow

\* history.recent_measurements(sid, limit)
RecentMeasurements(sid, limit) ==
    /\ pc = "idle"
    /\ answer' = [op |-> "recent_measurements", scenario_id |-> sid,
                  limit |-> limit,
                  result |-> recent_measurements(records, sid, limit)]
    /\ records' = records_get(records, sid).mapping
    /\ UNCHANGED <<config_vars, ghost_vars, restart_counts, telemetry, audit_log,
                   ctx_telemetry, heap, clock, pc, request, current_request,
                   fallback_queue, attempt, last_error, locator_result,
                   dep_index, strategy, outcome, locator_calls, executor_calls,
                   restart_calls, prepared, outcomes, handler_result>>

\* history.detect_ui_drift(sid, m, window=window, tolerance=tolerance)
DetectUiDrift(sid, m, window, tolerance) ==
    /\ pc = "idle"
    /\ answer' = [op |-> "detect_ui_drift", scenario_id |-> sid,
                  measurement |-> m, window |-> window, tolerance |-> tolerance,
                  result |-> detect_ui_drift(records, sid, m, window, tolerance)]
    /\ records' = records_get(records, sid).mapping
    /\ UNCHANGED <<config_vars, ghost_vars, restart_counts, telemetry, audit_log,
                   ctx_telemetry, heap, clock, pc, request, current_request,
                   fallback_queue, attempt, last_error, locator_result,
                   dep_index, strategy, outcome, locator_calls, executor_calls,
                   restart_calls, prepared, outcomes, handler_result>>

\* A query leaves the history as it is, so each query is made once, at every
\* history the recorded outcomes can produce.
NextQueries ==
    \/ \E sid \in Scenarios, o \in QueryOutcomes :
           /\ answer = NoAnswer
           /\ Len(outcomes) < MaxOutcomes
           /\ RecordOutcome(sid, o[1], o[2])
    \/ \E sid \in Scenarios, limit \in 0..MaxLimit :
           answer = NoAnswer /\ RecentMeasurements(sid, limit)
    \/ \E sid \in Scenarios, m \in QueryMeasurements, window \in Windows :
           answer = NoAnswer /\ DetectUiDrift(sid, m, window, DriftTolerance)

SpecQueries == InitHistory /\ [][NextQueries]_vars

(* --------------------- a RetryPolicy, called directly ---------------------- *)

MaxNextAttempt == 6

PolicyDelays == {<<>>, <<5>>, <<5, 7>>, <<5, 7, 9>>}

InitPolicy ==
    /\ max_attempts \in 1..MaxAttempts
    /\ delays \in PolicyDelays
    /\ restarters \in SUBSET Deps
    /\ max_entries = HistoryCapacity
    /\ Fresh

\* policy.should_retry(a)
ShouldRetry(a) ==
    /\ pc = "idle"
    /\ answer' = [op |-> "should_retry", attempt |-> a,
                  result |-> should_retry(max_attempts, a)]
    /\ UNCHANGED engine_vars

\* policy.delay_for(next_attempt)
DelayFor(next_attempt) ==
    /\ pc = "idle"
    /\ answer' = [op |-> "delay_for", next_attempt |-> next_attempt,
                  result |-> delay_for(delays, next_attempt)]
    /\ UNCHANGED engine_vars

NextPolicy ==
    \/ \E a \in 0..MaxNextAttempt : answer = NoAnswer /\ ShouldRetry(a)
    \/ \E n \in 0..MaxNextAttempt : answer = NoAnswer /\ DelayFor(n)

SpecPolicy == InitPolicy /\ [][NextPolicy]_vars

(* ---- run() executes synchronously: each of its steps is eventually taken ---- *)

\* run() calls the locator, the executor, the restart callbacks and the
\* fallback handlers in the calling thread; when each such call terminates,
\* the step that follows it is taken.
SpecFair == Init /\ [][Next]_vars /\ WF_vars(Step)

(* ------------- an engine built on a context its caller supplies ------------- *)

EarlierEntry == [event |-> "healing_success", scenario_id |-> "A", attempt |-> 1,
                 timestamp |-> isoformat(0)]
EarlierSnapshot == [events |-> <<>>, dependency_restarts |-> ("db" :> 1)]

\* None, mappings without the reserved section, and mappings that hold one
SuppliedContexts ==
    {None,
     EmptyDict,
     [session |-> 1],
     [self_healing |-> [audit_log |-> <<>>, telemetry |-> EmptyDict]],
     [session |-> 1,
      self_healing |-> [audit_log |-> <<EarlierEntry>>,
                        telemetry |-> EarlierSnapshot]]}

\* SelfHealingEngine(locator, executor, context_manager=ContextStateManager(context))
InitContext ==
    /\ max_attempts \in 1..MaxAttempts
    /\ max_attempts < MaxAttempts
    /\ delays = <<>>
    /\ restarters = {"db"}
    /\ max_entries = HistoryCapacity
    /\ context \in SuppliedContexts
    /\ audit_log = ContextStateManager(context).self_healing.audit_log
    /\ ctx_telemetry = ContextStateManager(context).self_healing.telemetry
    /\ FreshEngine
    /\ FreshProcess

NextContext ==
    \/ \E tpl \in RunTemplates : runs < MaxRuns /\ Run(tpl)
    \/ Step

SpecContext == InitContext /\ [][NextContext]_vars

(* --------------- the policy is constructed before the engine --------------- *)

NoPolicy == 0
PolicyBuilt == answer # NoAnswer /\ answer.op = "RetryPolicy" /\ answer.result = "policy"

InitConstruct ==
    /\ max_attempts = NoPolicy
    /\ delays = <<>>
    /\ restarters = {"db"}
    /\ max_entries = HistoryCapacity
    /\ Fresh

\* policy = RetryPolicy(max_attempts=n); the engine is built with it when the
\* construction succeeds
NewRetryPolicy(n) ==
    /\ pc = "idle"
    /\ answer' = [op |-> "RetryPolicy", max_attempts |-> n, result |-> post_init(n)]
    /\ max_attempts' = IF post_init(n) = "policy" THEN n ELSE max_attempts
    /\ UNCHANGED <<delays, restarters, max_entries, context, parked, ghost_vars,
                   restart_counts, records, telemetry, audit_log, ctx_telemetry,
                   heap, clock, pc, request, current_request, fallback_queue,
                   attempt, last_error, locator_result, dep_index, strategy,
                   outcome, locator_calls, executor_calls, restart_calls,
                   prepared, outcomes, handler_result>>

NextConstruct ==
    \/ \E n \in -1..(MaxAttempts - 1) : answer = NoAnswer /\ NewRetryPolicy(n)
    \/ \E tpl \in RunTemplates : PolicyBuilt /\ runs < MaxRuns /\ Run(tpl)
    \/ Step

SpecConstruct == InitConstruct /\ [][NextConstruct]_vars

(* ------------- two engines of one process, their steps interleaved ------------- *)

\* the engine that is stepping: everything it owns (its history, telemetry,
\* context, dependency manager and the locals of its run()); the clock readings
\* are counted per engine
EngineState ==
    [restart_counts |-> restart_counts,
     records |-> records,
     telemetry |-> telemetry,
     audit_log |-> audit_log,
     ctx_telemetry |-> ctx_telemetry,
     clock |-> clock,
     pc |-> pc,
     request |-> request,
     current_request |-> current_request,
     fallback_queue |-> fallback_queue,
     attempt |-> attempt,
     last_error |-> last_error,
     locator_result |-> locator_result,
     dep_index |-> dep_index,
     strategy |-> strategy,
     outcome |-> outcome,
     runs |-> runs,
     run_start |-> run_start,
     audit_start |-> audit_start,
     counts_start |-> counts_start,
     raised_restarts |-> raised_restarts,
     locator_calls |-> locator_calls,
     executor_calls |-> executor_calls,
     restart_calls |-> restart_calls,
     prepared |-> prepared,
     outcomes |-> outcomes,
     handler_result |-> handler_result]

\* a second engine built the same way: SelfHealingEngine(locator, executor, retry_policy=policy)
FreshState ==
    [restart_counts |-> EmptyDict,
     records |-> EmptyDict,
     telemetry |-> <<>>,
     audit_log |-> <<>>,
     ctx_telemetry |-> EmptyDict,
     clock |-> 0,
     pc |-> "idle",
     request |-> NoRequest,
     current_request |-> NoRequest,
     fallback_queue |-> <<>>,
     attempt |-> 0,
     last_error |-> NoError,
     locator_result |-> NoLocatorResult,
     dep_index |-> 0,
     strategy |-> "none",
     outcome |-> NoOutcome,
     runs |-> 0,
     run_start |-> 0,
     audit_start |-> 0,
     counts_start |-> EmptyDict,
     raised_restarts |-> EmptyDict,
     locator_calls |-> <<>>,
     executor_calls |-> <<>>,
     restart_calls |-> <<>>,
     prepared |-> <<>>,
     outcomes |-> <<>>,
     handler_result |-> None]

\* the other engine takes the next step: the two engines hold no object in
\* common, the list objects their requests refer to stay where they are
Switch ==
    /\ parked # NoEngine
    /\ parked' = EngineState
    /\ restart_counts' = parked.restart_counts
    /\ records' = parked.records
    /\ telemetry' = parked.telemetry
    /\ audit_log' = parked.audit_log
    /\ ctx_telemetry' = parked.ctx_telemetry
    /\ clock' = parked.clock
    /\ pc' = parked.pc
    /\ request' = parked.request
    /\ current_request' = parked.current_request
    /\ fallback_queue' = parked.fallback_queue
    /\ attempt' = parked.attempt
    /\ last_error' = parked.last_error
    /\ locator_result' = parked.locator_result
    /\ dep_index' = parked.dep_index
    /\ strategy' = parked.strategy
    /\ outcome' = parked.outcome
    /\ runs' = parked.runs
    /\ run_start' = parked.run_start
    /\ audit_start' = parked.audit_start
    /\ counts_start' = parked.counts_start
    /\ raised_restarts' = parked.raised_restarts
    /\ locator_calls' = parked.locator_calls
    /\ executor_calls' = parked.executor_calls
    /\ restart_calls' = parked.restart_calls
    /\ prepared' = parked.prepared
    /\ outcomes' = parked.outcomes
    /\ handler_result' = parked.handler_result
    /\ UNCHANGED <<max_attempts, delays, restarters, max_entries, context, heap, answer>>

\* the requests the caller built, each with a healing_plans list of its own
PairRequests ==
    {HealingRequest("A", 0, 1, <<>>, <<>>), HealingRequest("B", 0, 2, <<>>, <<>>)}

InitPair ==
    /\ max_attempts \in 2..MaxAttempts
    /\ delays = <<>>
    /\ restarters = {}
    /\ max_entries = HistoryCapacity
    /\ context = None
    /\ audit_log = ContextStateManager(None).self_healing.audit_log
    /\ ctx_telemetry = ContextStateManager(None).self_healing.telemetry
    /\ FreshEngine
    /\ heap = << <<SeedMarker>>, <<SeedMarker>> >>
    /\ answer = NoAnswer
    /\ parked = FreshState

\* engine.run(req) with a request the caller already holds
RunGiven(req) ==
    /\ pc = "idle"
    /\ request' = req
    /\ current_request' = req
    /\ fallback_queue' = req.fallback_strategies
    /\ last_error' = NoError
    /\ attempt' = 1
    /\ pc' = "loop"
    /\ outcome' = NoOutcome
    /\ runs' = runs + 1
    /\ run_start' = Len(telemetry)
    /\ audit_start' = Len(audit_log)
    /\ counts_start' = restart_counts
    /\ raised_restarts' = raised_restarts
    /\ locator_calls' = <<>>
    /\ executor_calls' = <<>>
    /\ restart_calls' = <<>>
    /\ prepared' = <<>>
    /\ UNCHANGED <<config_vars, answer, handler_result, outcomes, restart_counts,
                   records, telemetry, audit_log, ctx_telemetry, heap, clock,
                   locator_result, dep_index, strategy>>

\* a locator that reads the request: it finds the element once the request's
\* healing_plans carry two replan markers
ReplanMarkersOf(req) ==
    LET address == req.metadata.healing_plans
        plans == IF address = 0 THEN <<>> ELSE heap[address]
    IN Cardinality({i \in 1..Len(plans) : plans[i].type = "replan"})
LocatorReady == ReplanMarkersOf(current_request) >= 2

NextPair ==
    \/ \E req \in PairRequests : runs < MaxRuns /\ RunGiven(req)
    \/ LoopHead
    \/ ~LocatorReady /\ LocatorRaises
    \/ LocatorReady /\ LocatorReturns(NoMeasurement)
    \/ ExecutorReturns
    \/ Replan
    \/ RecoveryFailed
    \/ Switch

SpecPair == InitPair /\ [][NextPair]_vars

RunEvents == SubSeq(telemetry, run_start + 1, Len(telemetry))
RunAudit == SubSeq(audit_log, audit_start + 1, Len(audit_log))

Finished == pc = "idle" /\ outcome # NoOutcome
Returned == Finished /\ outcome.kind = "returned"
Raised(src) == Finished /\ outcome.kind = "raised" /\ outcome.error.src = src
CallbackRaised == Raised("restart_callback") \/ Raised("handler")

Positions(seq, kinds) == {i \in 1..Len(seq) : seq[i].kind \in kinds}
CountKind(seq, kind) == Cardinality(Positions(seq, {kind}))
FailureKinds == {"locator_failed", "executor_failed"}
AttemptsStarted == CountKind(RunEvents, "attempt_started")
FailedAttempts ==
    {RunEvents[i].details.attempt : i \in Positions(RunEvents, FailureKinds)}

(* ------------------------------- claims ------------------------------- *)

\* C1: when no restart callback and no fallback handler raises, a finished run()
\* either returned the value the executor returned on the first attempt in which
\* locator and executor both succeeded (every earlier attempt failed), or raised
\* SelfHealingError after all max_attempts attempts failed; an exception of the
\* locator or the executor is never what run() raises.
C1_TwoOutcomes ==
    (Finished /\ ~CallbackRaised) =>
        \/ /\ outcome.kind = "returned"
           /\ AttemptsStarted >= 1
           /\ outcome.value = [result_of |-> <<"plan", AttemptsStarted>>]
           /\ FailedAttempts = 1..(AttemptsStarted - 1)
           /\ executor_calls[Len(executor_calls)] = <<"plan", AttemptsStarted>>
        \/ /\ outcome.kind = "raised"
           /\ outcome.error.src = "SelfHealingError"
           /\ AttemptsStarted = max_attempts
           /\ FailedAttempts = 1..max_attempts

C1_Witness ==
    /\ Returned
    /\ AttemptsStarted = 3
    /\ CountKind(RunEvents, "locator_failed") = 1
    /\ CountKind(RunEvents, "executor_failed") = 1

LocatorAlwaysFailed ==
    /\ AttemptsStarted >= 1
    /\ CountKind(RunEvents, "locator_failed") = AttemptsStarted

ExhaustedByLocator ==
    /\ AttemptsStarted = max_attempts
    /\ CountKind(RunEvents, "locator_failed") = max_attempts
    /\ CountKind(RunEvents, "recovery_failed") = 1
    /\ CountKind(RunEvents, "executor_failed") = 0
    /\ executor_calls = <<>>
    /\ outcome.kind = "raised"
    /\ outcome.error.src = "SelfHealingError"

\* C2 as stated: every finished run() whose locator failed on every attempt
\* recorded max_attempts attempt_started, max_attempts locator_failed, one
\* recovery_failed and no executor_failed events, never called the executor and
\* raised SelfHealingError.
C2_Original == (Finished /\ LocatorAlwaysFailed) => ExhaustedByLocator

\* C2 amended: the same, for runs in which no restart callback and no fallback
\* handler raises.
C2_LocatorAlwaysFails ==
    (Finished /\ ~CallbackRaised /\ LocatorAlwaysFailed) => ExhaustedByLocator

C2_Witness ==
    /\ Raised("SelfHealingError")
    /\ max_attempts = 3
    /\ LocatorAlwaysFailed
    /\ CountKind(RunEvents, "fallback_applied") = 1
    /\ CountKind(RunEvents, "replan_applied") = 1

OneStrategyFixes ==
    /\ Returned
    /\ Len(request.fallback_strategies) = 1
    /\ FailedAttempts = {1}

SecondAttemptSucceeds ==
    /\ AttemptsStarted = 2
    /\ outcome.value = [result_of |-> <<"plan", 2>>]
    /\ CountKind(RunEvents, "fallback_applied") = 1
    /\ CountKind(RunEvents, "healing_success") = 1
    /\ CountKind(RunEvents, "replan_applied") = 0

\* C3 as stated: with exactly one fallback strategy, a failed first attempt and
\* a second attempt that works, run() returns on attempt 2 with one
\* fallback_applied, two attempt_started and one healing_success event, and the
\* executor was invoked exactly once.
C3_Original ==
    OneStrategyFixes => (SecondAttemptSucceeds /\ Len(executor_calls) = 1)

\* C3 amended: the same events; the executor was invoked once when the first
\* attempt failed in the locator and twice (attempts 1 and 2) when it failed in
\* the executor.
C3_FallbackThenSuccess ==
    OneStrategyFixes =>
        /\ SecondAttemptSucceeds
        /\ executor_calls =
               IF CountKind(RunEvents, "locator_failed") = 1
               THEN << <<"plan", 2>> >>
               ELSE << <<"plan", 1>>, <<"plan", 2>> >>

C3_Witness ==
    /\ OneStrategyFixes
    /\ CountKind(RunEvents, "executor_failed") = 1
    /\ Len(executor_calls) = 2

\* C4: in every run() at most one of healing_success and recovery_failed is
\* recorded, and it is the last telemetry event of the run; recovery_failed
\* comes only after exactly max_attempts attempts that each ended in one
\* locator_failed or executor_failed, and its attempts field is the number of
\* attempt_started events of the run.
C4_TerminalEvent ==
    LET terminal == Positions(RunEvents, {"healing_success", "recovery_failed"})
    IN /\ Cardinality(terminal) <= 1
       /\ \A i \in terminal : i = Len(RunEvents)
       /\ \A i \in Positions(RunEvents, {"recovery_failed"}) :
              /\ RunEvents[i].details.attempts = AttemptsStarted
              /\ AttemptsStarted = max_attempts
              /\ \A a \in 1..max_attempts :
                     Cardinality({j \in Positions(RunEvents, FailureKinds) :
                                      RunEvents[j].details.attempt = a}) = 1

C4_Witness ==
    /\ Raised("SelfHealingError")
    /\ max_attempts = 3
    /\ CountKind(RunEvents, "locator_failed") = 1
    /\ CountKind(RunEvents, "executor_failed") = 2
    /\ RunEvents[Len(RunEvents)].kind = "recovery_failed"

KindsOf(seq) == [i \in 1..Len(seq) |-> seq[i].kind]

PreparationTails ==
    {<<"fallback_considered", "fallback_applied">>,
     <<"replan_applied">>,
     <<"retry_scheduled", "fallback_considered", "fallback_applied">>,
     <<"retry_scheduled", "replan_applied">>}

\* the events between position i (a failure event of attempt a) and position j
\* (attempt_started of attempt a + 1) are those of one retry preparation
PreparationSegment(i, j, a) ==
    LET segment == SubSeq(RunEvents, i + 1, j - 1)
        deps == prepared[a].request.dependencies
    IN /\ Len(segment) > Len(deps)
       /\ \A k \in 1..Len(deps) :
              /\ segment[k].kind = "dependency_restarted"
              /\ segment[k].details.dependency = deps[k]
       /\ KindsOf(SubSeq(segment, Len(deps) + 1, Len(segment))) \in PreparationTails
       /\ \A k \in 1..Len(segment) : segment[k].details.attempt = a + 1

\* C5: within one run() the attempt_started events are numbered 1, 2, ..., k
\* with k <= max_attempts, and between the failure event of attempt a and
\* attempt_started of attempt a + 1 the events are, in order, one
\* dependency_restarted per listed dependency, at most one retry_scheduled, then
\* fallback_considered and fallback_applied, or replan_applied, all with
\* attempt a + 1.
C5_AttemptOrder ==
    LET started == Positions(RunEvents, {"attempt_started"})
    IN /\ AttemptsStarted <= max_attempts
       /\ {RunEvents[i].details.attempt : i \in started} = 1..AttemptsStarted
       /\ \A i, j \in started :
              i < j => RunEvents[i].details.attempt < RunEvents[j].details.attempt
       /\ \A i \in Positions(RunEvents, FailureKinds) : \A j \in started :
              RunEvents[j].details.attempt = RunEvents[i].details.attempt + 1
                  => /\ i < j
                     /\ PreparationSegment(i, j, RunEvents[i].details.attempt)

C5_Witness ==
    /\ pc = "locate"
    /\ attempt = 3
    /\ CountKind(RunEvents, "dependency_restarted") = 4
    /\ CountKind(RunEvents, "retry_scheduled") = 2
    /\ CountKind(RunEvents, "fallback_applied") = 1
    /\ CountKind(RunEvents, "replan_applied") = 1

IsFallbackApplied(e) == e.kind = "fallback_applied"
IsFallbackConsidered(e) == e.kind = "fallback_considered"
IsReplanApplied(e) == e.kind = "replan_applied"
StrategiesOf(seq) == [i \in 1..Len(seq) |-> seq[i].details.strategy]
AppliedStrategies == StrategiesOf(SelectSeq(RunEvents, IsFallbackApplied))
ConsideredStrategies == StrategiesOf(SelectSeq(RunEvents, IsFallbackConsidered))
IsPrefix(s, t) == Len(s) <= Len(t) /\ s = SubSeq(t, 1, Len(s))

\* C6: the strategies named by the run's fallback_applied events are, in order,
\* a prefix of the fallback_strategies of the request passed to run(): a retry
\* preparation consumes at most one strategy, from the front, none is applied
\* twice, and the queue never takes anything from the fallback_strategies of a
\* request a strategy returned.
C6_FallbackPrefix ==
    /\ IsPrefix(AppliedStrategies, request.fallback_strategies)
    /\ IsPrefix(ConsideredStrategies, request.fallback_strategies)
    /\ fallback_queue = SubSeq(request.fallback_strategies,
                               Len(ConsideredStrategies) + 1,
                               Len(request.fallback_strategies))
    /\ \A i, j \in Positions(RunEvents, {"fallback_considered"}) :
           RunEvents[i].details.attempt = RunEvents[j].details.attempt => i = j
    /\ \A i, j \in 1..Len(AppliedStrategies) :
           AppliedStrategies[i] = AppliedStrategies[j] => i = j

C6_Witness ==
    /\ AppliedStrategies = <<"s1", "s2">>
    /\ current_request.fallback_strategies = <<"s2", "s1">>
    /\ request.fallback_strategies = <<"s1", "s2">>

Replans == SelectSeq(RunEvents, IsReplanApplied)
AppliedOrReplanned(n) ==
    {i \in Positions(RunEvents, {"fallback_applied", "replan_applied"}) :
         RunEvents[i].details.attempt = n}
PreparationOver(a) == a < Len(prepared) \/ pc \notin {"restart", "fallback"}

ReplanAfterQueueEmpty ==
    \A i \in Positions(RunEvents, {"replan_applied"}) :
        Cardinality({j \in Positions(RunEvents, {"fallback_considered"}) : j < i})
            = Len(request.fallback_strategies)

\* the request for the next attempt carries exactly the markers of the replans
ReplanMarkers ==
    LET plans == heap[current_request.metadata.healing_plans]
    IN /\ current_request.metadata.healing_plans # 0
       /\ Len(plans) = Len(Replans)
       /\ \A k \in 1..Len(plans) :
              /\ plans[k].type = "replan"
              /\ plans[k].attempt = Replans[k].details.attempt
       /\ \A k \in 1..(Len(plans) - 1) : plans[k].attempt < plans[k + 1].attempt

\* C7 as stated: every retry preparation records exactly one of fallback_applied
\* and replan_applied; replan_applied is recorded only when every strategy of
\* the original request has been consumed; after the j-th replan of a run whose
\* original metadata had no healing_plans key the next attempt's request carries
\* exactly j replan markers, numbered by the next attempts in increasing order.
C7_Original ==
    /\ \A a \in 1..Len(prepared) :
           PreparationOver(a) => Cardinality(AppliedOrReplanned(a + 1)) = 1
    /\ ReplanAfterQueueEmpty
    /\ (Len(Replans) >= 1 /\ request.metadata.healing_plans = 0) => ReplanMarkers

\* C7 amended: a retry preparation records at most one of fallback_applied and
\* replan_applied, and exactly one when it runs to completion (the next attempt
\* starts); replan_applied only after every strategy of the original request
\* was consumed; the marker count holds when the request handed to the first
\* replan had no healing_plans key.
C7_OneStepPerPreparation ==
    /\ \A a \in 1..Len(prepared) : Cardinality(AppliedOrReplanned(a + 1)) <= 1
    /\ \A n \in 2..AttemptsStarted : Cardinality(AppliedOrReplanned(n)) = 1
    /\ ReplanAfterQueueEmpty
    /\ (/\ Len(Replans) >= 1
        /\ prepared[Replans[1].details.attempt - 1].request.metadata.healing_plans = 0)
           => ReplanMarkers

C7_Witness ==
    /\ pc = "locate"
    /\ attempt = 3
    /\ Len(Replans) = 2
    /\ request.metadata.healing_plans = 0
    /\ Len(heap[current_request.metadata.healing_plans]) = 2

NamesOf(seq) == [i \in 1..Len(seq) |-> seq[i].name]
\* the dependencies DependencyManager.restart was called with while preparing
\* attempt a + 1, in call order
RestartedFor(a) ==
    NamesOf(SelectSeq(restart_calls, LAMBDA c : c.attempt = a + 1))
RestartPassEnded(a) ==
    \/ a < Len(prepared)
    \/ pc # "restart"
    \/ dep_index > Len(current_request.dependencies)
RestartPassCompleted(a) ==
    /\ RestartPassEnded(a)
    /\ \A k \in 1..Len(restart_calls) :
           restart_calls[k].attempt = a + 1 => ~restart_calls[k].raised

\* C8 as stated, for the retry preparations whose restart calls all return:
\* restart is called exactly once for each dependency named on the request
\* passed to run(), in listed order, whatever the fallback strategies returned.
C8_Original ==
    \A a \in 1..Len(prepared) :
        RestartPassCompleted(a) => RestartedFor(a) = request.dependencies

\* C8 amended: on every retry preparation in which no restart callback raises,
\* restart is called exactly once for each dependency named on the request of
\* the attempt that just failed (the request passed to run(), or the one the
\* latest fallback strategy returned), in listed order, and on every
\* preparation however many retries went before.
C8_RestartsCurrentDependencies ==
    \A a \in 1..Len(prepared) :
        /\ prepared[a].next_attempt = a + 1
        /\ IsPrefix(RestartedFor(a), prepared[a].request.dependencies)
        /\ RestartPassCompleted(a) =>
               RestartedFor(a) = prepared[a].request.dependencies

C8_Witness ==
    /\ Len(prepared) = 2
    /\ pc = "loop"
    /\ request.dependencies = <<"db", "ui">>
    /\ prepared[2].request.dependencies = <<"db">>
    /\ RestartedFor(1) = <<"db", "ui">>
    /\ RestartedFor(2) = <<"db">>

Growth(d) == Count(restart_counts, d) - Count(counts_start, d)
RestartEvents(d) ==
    {i \in Positions(RunEvents, {"dependency_restarted"}) :
         RunEvents[i].details.dependency = d}
RestartAudits(d) ==
    {i \in 1..Len(RunAudit) : /\ RunAudit[i].event = "dependency_restarted"
                              /\ RunAudit[i].dependency = d}
Listed(d, deps) == \E k \in 1..Len(deps) : deps[k] = d

\* C9 as stated: for a request listing a dependency without a registered
\* callback, every retry preparation increments its restart count by one and
\* records dependency_restarted with restarted = false in telemetry and audit
\* log; after a run with r retry preparations the count has grown by r.
C9_Original ==
    \A d \in Deps \ restarters :
        (Finished /\ Listed(d, request.dependencies)) =>
            /\ Growth(d) = Len(prepared)
            /\ Cardinality(RestartEvents(d)) = Len(prepared)
            /\ Cardinality(RestartAudits(d)) = Len(prepared)

\* C9 amended: for a dependency without a registered callback, every retry
\* preparation whose request lists it and in which no callback of another
\* dependency raises increments its restart count by one and records
\* dependency_restarted with restarted = false in telemetry and audit log; the
\* count grows by one per such preparation, by r after r of them.
C9_UnregisteredDependency ==
    \A d \in Deps \ restarters :
        LET counted == {a \in 1..Len(prepared) :
                            /\ RestartPassCompleted(a)
                            /\ Listed(d, prepared[a].request.dependencies)}
        IN /\ \A a \in counted :
                  /\ Cardinality({i \in RestartEvents(d) :
                         RunEvents[i].details.attempt = a + 1}) = 1
                  /\ Cardinality({i \in RestartAudits(d) :
                         RunAudit[i].attempt = a + 1}) = 1
           /\ \A i \in RestartEvents(d) : RunEvents[i].details.restarted = FALSE
           /\ \A i \in RestartAudits(d) : RunAudit[i].restarted = FALSE
           /\ Growth(d) = Cardinality(RestartEvents(d))
           /\ Growth(d) = Cardinality(RestartAudits(d))
           /\ (pc # "restart" /\ ~Raised("restart_callback")) =>
                  Growth(d) = Cardinality(counted)

C9_Witness ==
    /\ Raised("SelfHealingError")
    /\ "db" \notin restarters
    /\ Len(prepared) = 2
    /\ Growth("db") = 2
    /\ \A a \in 1..2 : Listed("db", prepared[a].request.dependencies)

\* C10: when a registered restart callback raises during a retry preparation,
\* run() ends with that exception: it was the last restart call, no later
\* attempt_started, no dependency_restarted for the remaining dependencies, no
\* retry_scheduled, fallback or replan of that preparation and no
\* recovery_failed or healing_success event is recorded for the run.
C10_CallbackAborts ==
    \A k \in 1..Len(restart_calls) :
        restart_calls[k].raised =>
            LET a == restart_calls[k].attempt - 1
                deps == prepared[a].request.dependencies
            IN /\ k = Len(restart_calls)
               /\ Finished
               /\ outcome = [kind |-> "raised",
                             error |-> [src |-> "restart_callback",
                                        dependency |-> restart_calls[k].name,
                                        attempt |-> a + 1]]
               /\ a = Len(prepared)
               /\ AttemptsStarted = a
               /\ Positions(RunEvents, {"recovery_failed", "healing_success"}) = {}
               /\ \A i \in 1..Len(RunEvents) :
                      RunEvents[i].kind # "attempt_started" /\ RunEvents[i].details.attempt = a + 1
                          => RunEvents[i].kind = "dependency_restarted"
               /\ Len(RestartedFor(a)) <= Len(deps)
               /\ deps[Len(RestartedFor(a))] = restart_calls[k].name
               /\ KindsOf(SubSeq(RunEvents, Len(RunEvents) - Len(RestartedFor(a)) + 2,
                                 Len(RunEvents)))
                      = [i \in 1..(Len(RestartedFor(a)) - 1) |-> "dependency_restarted"]
               /\ RunEvents[Len(RunEvents) - Len(RestartedFor(a)) + 1].kind \in FailureKinds

C10_Witness ==
    /\ Raised("restart_callback")
    /\ Len(prepared) = 2
    /\ prepared[2].request.dependencies = <<"db", "ui">>
    /\ outcome.error.dependency = "db"
    /\ CountKind(RunEvents, "fallback_applied") = 1

\* C11: when run() ends in exhaustion, the SelfHealingError it raises and the
\* recovery_failed telemetry event and audit entry carry the scenario_id of the
\* request that was passed to run() (the one the first attempt used), also when
\* a fallback strategy returned a request with another scenario_id.
C11_OriginalScenarioId ==
    Raised("SelfHealingError") =>
        /\ request = locator_calls[1].request
        /\ outcome.error.scenario_id = request.scenario_id
        /\ RunEvents[Len(RunEvents)].kind = "recovery_failed"
        /\ RunEvents[Len(RunEvents)].details.scenario_id = request.scenario_id
        /\ RunAudit[Len(RunAudit)].event = "recovery_failed"
        /\ RunAudit[Len(RunAudit)].scenario_id = request.scenario_id

C11_Witness ==
    /\ Raised("SelfHealingError")
    /\ CountKind(RunEvents, "fallback_applied") >= 1
    /\ current_request.scenario_id # request.scenario_id
    /\ RunEvents[Len(RunEvents) - 1].details.scenario_id # request.scenario_id

LastFailure ==
    LET failures == Positions(RunEvents, FailureKinds)
    IN RunEvents[CHOOSE i \in failures : \A j \in failures : j <= i]

\* C12: when run() ends in exhaustion, SelfHealingError.last_error is present
\* and is the exception the locator or the executor raised in attempt number
\* max_attempts, the one the run's last failure event reports, not an exception
\* of an earlier attempt.
C12_LastErrorOfFinalAttempt ==
    Raised("SelfHealingError") =>
        LET e == outcome.error.last_error
        IN /\ e # NoError
           /\ e.src \in {"locator", "executor"}
           /\ e.attempt = max_attempts
           /\ LastFailure.details.attempt = max_attempts
           /\ LastFailure.kind = (IF e.src = "locator" THEN "locator_failed"
                                  ELSE "executor_failed")
           /\ LastFailure.details.error = Repr(e)

C12_Witness ==
    /\ Raised("SelfHealingError")
    /\ max_attempts = 3
    /\ outcome.error.last_error = [src |-> "locator", attempt |-> 3]
    /\ CountKind(RunEvents, "executor_failed") = 2

HistoryOf(s) == Buffer(records, s)
\* the attempts of this run whose request carried scenario_id s, in order
AttemptsUnder(s) ==
    SelectSeq([a \in 1..Len(locator_calls) |-> a],
              LAMBDA a : locator_calls[a].request.scenario_id = s)
Chronological(buf) ==
    \A i \in 1..(Len(buf) - 1) : buf[i].timestamp < buf[i + 1].timestamp
ScenarioKept ==
    \A a \in 1..Len(locator_calls) :
        locator_calls[a].request.scenario_id = request.scenario_id
\* a first run (the history was empty) returned on attempt N > 1, capacity >= N
SucceededAfterRetries ==
    /\ Returned
    /\ runs = 1
    /\ AttemptsStarted > 1
    /\ HistoryCapacity >= AttemptsStarted
FailuresThenSuccess(buf, n) ==
    /\ Len(buf) = n
    /\ \A i \in 1..n : buf[i].status = (IF i = n THEN "success" ELSE "failure")
    /\ Chronological(buf)

\* C13 as stated: after run() succeeds on attempt N > 1 starting from an empty
\* history, the history of the request's scenario_id holds exactly N entries,
\* chronologically N - 1 failures followed by one success.
C13_Original ==
    SucceededAfterRetries =>
        FailuresThenSuccess(HistoryOf(request.scenario_id), AttemptsStarted)

\* C13 amended: the N entries are stored each under the scenario_id of the
\* request its attempt used: per scenario_id the buffer holds, chronologically,
\* the entries of exactly the attempts made under it, failure for attempts
\* 1..N-1 and success for attempt N; when no strategy changed the scenario_id
\* they are all in the history of the request's scenario_id.
C13_HistoryPerAttemptScenario ==
    SucceededAfterRetries =>
        /\ DOMAIN records \subseteq Scenarios
        /\ \A s \in Scenarios :
               LET buf == HistoryOf(s)
                   att == AttemptsUnder(s)
               IN /\ Len(buf) = Len(att)
                  /\ \A i \in 1..Len(buf) :
                         /\ buf[i].metadata.attempt = att[i]
                         /\ buf[i].status = (IF att[i] = AttemptsStarted
                                             THEN "success" ELSE "failure")
                  /\ Chronological(buf)
        /\ ScenarioKept =>
               FailuresThenSuccess(HistoryOf(request.scenario_id), AttemptsStarted)

C13_Witness ==
    /\ SucceededAfterRetries
    /\ AttemptsStarted = 3
    /\ ScenarioKept
    /\ CountKind(RunEvents, "fallback_applied") = 2
    /\ CountKind(RunEvents, "locator_failed") = 1
    /\ Len(HistoryOf(request.scenario_id)) = 3

CompletedAttempts ==
    Positions(RunEvents, FailureKinds \cup {"healing_success"})
TotalEntries == Sum([i \in 1..2 |-> Len(HistoryOf(<<"A", "B">>[i]))])
\* what the history must hold for the attempt that recorded RunEvents[i]
ExpectedEntry(i) ==
    LET e == RunEvents[i]
        m == locator_calls[e.details.attempt].measurement
    IN [status |-> IF e.kind = "healing_success" THEN "success" ELSE "failure",
        measurement |-> IF e.kind = "locator_failed" THEN NoMeasurement
                        ELSE IF m \in {NoMeasurement, NonNumeric} THEN NoMeasurement
                        ELSE m,
        stage |-> IF e.kind = "locator_failed" THEN "locator" ELSE "executor"]
\* on a fresh history that can hold them all, every attempt has logged exactly
\* one entry, under its request's scenario_id, once its outcome event is
\* recorded, and an attempt is never started before the previous one has
OneEntryPerAttempt ==
    (runs = 1 /\ HistoryCapacity >= max_attempts) =>
        /\ TotalEntries = Cardinality(CompletedAttempts)
        /\ TotalEntries = IF pc \in {"locate", "execute"}
                          THEN AttemptsStarted - 1 ELSE AttemptsStarted
        /\ \A i \in CompletedAttempts :
               LET buf == HistoryOf(RunEvents[i].details.scenario_id)
                   hits == {k \in 1..Len(buf) :
                               buf[k].metadata.attempt = RunEvents[i].details.attempt}
               IN /\ Cardinality(hits) = 1
                  /\ \A k \in hits :
                         /\ buf[k].status = ExpectedEntry(i).status
                         /\ buf[k].measurement = ExpectedEntry(i).measurement
                         /\ buf[k].metadata.stage = ExpectedEntry(i).stage
Copies(n, m) == [i \in 1..n |-> m]
\* a first run was exhausted, the locator returned m in every attempt and the
\* executor failed in every attempt
ExecutorAlwaysFailedWith(m) ==
    /\ Raised("SelfHealingError")
    /\ runs = 1
    /\ HistoryCapacity >= max_attempts
    /\ CountKind(RunEvents, "executor_failed") = max_attempts
    /\ \A a \in 1..Len(locator_calls) : locator_calls[a].measurement = m
Numeric == Measurements \ {NoMeasurement, NonNumeric}

\* C14 as stated, read for a numeric m and with the coercion of record_outcome:
\* every attempt logs exactly one entry before the next attempt starts or the
\* run ends, with the stated status and measurement; after an exhausted run
\* whose locator returned m in each of the N attempts and whose executor always
\* failed, recent_measurements of the request's scenario_id returns N copies of m.
C14_Original ==
    /\ OneEntryPerAttempt
    /\ \A m \in Numeric :
           ExecutorAlwaysFailedWith(m) =>
               recent_measurements(records, request.scenario_id, max_attempts)
                   = Copies(max_attempts, m)

\* C14 amended: the entry of an attempt is stored under the scenario_id of that
\* attempt's request, with the locator's measurement as record_outcome keeps it
\* (absent when it was absent or not numeric); recent_measurements of a
\* scenario_id returns one copy of a numeric m per attempt made under that
\* scenario_id, hence N copies when no strategy changed the scenario_id, and
\* nothing when m is absent or not numeric.
C14_OneEntryPerAttempt ==
    /\ OneEntryPerAttempt
    /\ \A m \in Measurements :
           ExecutorAlwaysFailedWith(m) =>
               \A s \in Scenarios : \A limit \in max_attempts..(max_attempts + 1) :
                   recent_measurements(records, s, limit)
                       = IF m \in Numeric THEN Copies(Len(AttemptsUnder(s)), m)
                         ELSE <<>>
    /\ \A m \in Numeric :
           (ExecutorAlwaysFailedWith(m) /\ ScenarioKept) =>
               recent_measurements(records, request.scenario_id, max_attempts)
                   = Copies(max_attempts, m)

C14_Witness ==
    /\ ExecutorAlwaysFailedWith(15)
    /\ max_attempts = 3
    /\ ScenarioKept
    /\ recent_measurements(records, request.scenario_id, 3) = <<15, 15, 15>>

IsLocated(c) == ~c.raised
PlansLocated ==
    LET located == SelectSeq(locator_calls, IsLocated)
    IN [i \in 1..Len(located) |-> <<"plan", located[i].attempt>>]
OutcomeKinds == {"executor_failed", "healing_success"}
\* every recorded drift stands right after its attempt's attempt_started and
\* right before that attempt's executor outcome, in telemetry and audit log
DriftRecordedInPlace ==
    /\ \A i \in Positions(RunEvents, {"ui_drift_detected"}) :
           /\ i > 1
           /\ RunEvents[i - 1].kind = "attempt_started"
           /\ RunEvents[i - 1].details.attempt = RunEvents[i].details.attempt
           /\ IF i = Len(RunEvents) THEN pc = "execute"
              ELSE /\ RunEvents[i + 1].kind \in OutcomeKinds
                   /\ RunEvents[i + 1].details.attempt = RunEvents[i].details.attempt
    /\ \A k \in 1..Len(RunAudit) :
           RunAudit[k].event = "ui_drift_detected" =>
               IF k = Len(RunAudit) THEN pc = "execute"
               ELSE /\ RunAudit[k + 1].event \in OutcomeKinds
                    /\ RunAudit[k + 1].attempt = RunAudit[k].attempt
    /\ CountKind(RunEvents, "ui_drift_detected")
           = Cardinality({k \in 1..Len(RunAudit) :
                              RunAudit[k].event = "ui_drift_detected"})
\* the executor has been invoked once per attempt whose locator returned, with
\* that attempt's plan, and every failure event reports an exception
ExecutorInvokedPerLocate ==
    /\ IF pc = "execute"
       THEN /\ PlansLocated = Append(executor_calls, locator_result.plan)
            /\ locator_result.measurement
                   = locator_calls[Len(locator_calls)].measurement
       ELSE PlansLocated = executor_calls
    /\ \A i \in Positions(RunEvents, FailureKinds) :
           RunEvents[i].details.error =
               Repr([src |-> IF RunEvents[i].kind = "locator_failed"
                             THEN "locator" ELSE "executor",
                     attempt |-> RunEvents[i].details.attempt])
\* the step in which the locator returns: the verdict decides only whether the
\* drift is recorded; the attempt goes on to the executor either way
LocatedStep ==
    (pc = "locate" /\ ~locator_calls'[Len(locator_calls')].raised) =>
        LET m == locator_result'.measurement
            sid == current_request.scenario_id
        IN /\ pc' = "execute"
           /\ <<attempt, records, last_error, current_request, outcome>>' =
                  <<attempt, records, last_error, current_request, outcome>>
           /\ IF detect_ui_drift(records, sid, m, DriftWindow, DriftTolerance)
              THEN /\ Len(telemetry') = Len(telemetry) + 1
                   /\ telemetry'[Len(telemetry')].kind = "ui_drift_detected"
                   /\ telemetry'[Len(telemetry')].details =
                          [scenario_id |-> sid, attempt |-> attempt,
                           measurement |-> m]
                   /\ Len(audit_log') = Len(audit_log) + 1
                   /\ audit_log'[Len(audit_log')].event = "ui_drift_detected"
                   /\ audit_log'[Len(audit_log')].attempt = attempt
                   /\ audit_log'[Len(audit_log')].measurement = m
              ELSE telemetry' = telemetry /\ audit_log' = audit_log

\* C15: drift detection is advisory: in every attempt whose locator returns,
\* the executor is invoked exactly once with that attempt's plan whether or not
\* a drift was recorded, no retry or failure comes from the verdict, and a
\* detected drift is recorded in telemetry and audit log after attempt_started
\* and before the attempt's executor_failed or healing_success.
C15_DriftAdvisory ==
    /\ [](DriftRecordedInPlace /\ ExecutorInvokedPerLocate)
    /\ [][LocatedStep]_vars

C15_Witness ==
    /\ Returned
    /\ AttemptsStarted = 3
    /\ CountKind(RunEvents, "ui_drift_detected") = 1
    /\ RunEvents[Len(RunEvents) - 1].kind = "ui_drift_detected"
    /\ Len(executor_calls) = 3

TerminalKinds == {"healing_success", "recovery_failed"}

\* C16: whenever run() has returned a result or raised SelfHealingError, the
\* telemetry snapshot in the context has exactly the keys events and
\* dependency_restarts; events is the complete ordered telemetry event list,
\* timestamps in ISO form, ending with the terminal healing_success or
\* recovery_failed event, and dependency_restarts is the current restart counts.
C16_SnapshotAtExit ==
    (Returned \/ Raised("SelfHealingError")) =>
        /\ DOMAIN ctx_telemetry = {"events", "dependency_restarts"}
        /\ Len(ctx_telemetry.events) = Len(telemetry)
        /\ \A i \in 1..Len(telemetry) :
               ctx_telemetry.events[i] =
                   [timestamp |-> isoformat(telemetry[i].timestamp),
                    kind |-> telemetry[i].kind,
                    details |-> telemetry[i].details]
        /\ ctx_telemetry.events[Len(telemetry)].kind =
               (IF Returned THEN "healing_success" ELSE "recovery_failed")
        /\ ctx_telemetry.dependency_restarts = restart_counts

C16_Witness ==
    /\ Raised("SelfHealingError")
    /\ max_attempts = 3
    /\ Count(restart_counts, "db") = 2
    /\ Count(restart_counts, "ui") = 1
    /\ ctx_telemetry.events[Len(ctx_telemetry.events)].kind = "recovery_failed"
    /\ ctx_telemetry.dependency_restarts = restart_counts

\* C17: over any sequence of run() calls on one engine, every step leaves the
\* telemetry event list and the audit log as they were or extends them at the
\* end: the earlier list is always a prefix of the later one, so nothing
\* recorded by a failed or superseded attempt or by an earlier run is removed,
\* reordered or modified.
C17_AppendOnly ==
    [][/\ IsPrefix(telemetry, telemetry')
       /\ IsPrefix(audit_log, audit_log')]_vars

C17_Witness ==
    /\ runs = 2
    /\ Returned
    /\ AttemptsStarted = 2
    /\ run_start > 0
    /\ telemetry[run_start].kind = "recovery_failed"
    /\ audit_log[audit_start].event = "recovery_failed"
    /\ RunEvents[Len(RunEvents)].kind = "healing_success"

AuditKinds ==
    {"locator_failed", "executor_failed", "ui_drift_detected", "healing_success",
     "recovery_failed", "retry_scheduled", "fallback_applied", "replan_applied",
     "dependency_restarted"}
AuditEventsSeen == {audit_log[k].event : k \in 1..Len(audit_log)}

\* C18: every entry of the audit log, whatever its event kind and on whatever
\* path of run() it was appended, carries an event field, a timestamp field (an
\* ISO timestamp) and a scenario_id field.
C18_AuditFields ==
    \A k \in 1..Len(audit_log) :
        /\ {"event", "timestamp", "scenario_id"} \subseteq DOMAIN audit_log[k]
        /\ audit_log[k].event \in AuditKinds
        /\ audit_log[k].scenario_id \in Scenarios
        /\ \E t \in 0..clock : audit_log[k].timestamp = isoformat(t)

C18_Witness ==
    /\ Raised("SelfHealingError")
    /\ AuditEventsSeen = AuditKinds \ {"healing_success", "ui_drift_detected"}
    /\ current_request.scenario_id = "B"

\* the requests that exist before the retry preparation in progress returns its
\* own: the one passed to run() and the one each attempt so far was made with
EarlierRequests ==
    {request} \cup {locator_calls[a].request : a \in 1..Len(locator_calls)}
PlansKept(req) ==
    req.metadata.healing_plans # 0 =>
        heap'[req.metadata.healing_plans] = heap[req.metadata.healing_plans]
PreparationStep == pc \in {"restart", "fallback"}
ReplanStep ==
    /\ PreparationStep
    /\ Len(telemetry') > Len(telemetry)
    /\ telemetry'[Len(telemetry')].kind = "replan_applied"

\* C19: a step of a retry preparation leaves every earlier request as it was,
\* the healing_plans list inside its metadata included, and the request a replan
\* returns has a healing_plans list of its own, not the one of the request it
\* was derived from.
C19_Original ==
    [][/\ PreparationStep => \A req \in EarlierRequests : PlansKept(req)
       /\ ReplanStep => current_request'.metadata.healing_plans
                            # current_request.metadata.healing_plans]_vars

RecordedFor(s) == SelectSeq(outcomes, LAMBDA o : o.scenario_id = s)
LastOf(seq, n) == SubSeq(seq, Len(seq) - n + 1, Len(seq))

\* C20: after any sequence of record_outcome calls, the buffer of every scenario
\* holds at most max_entries entries, and they are the most recent
\* min(count, max_entries) outcomes recorded for that scenario, in recording
\* order: when the buffer is full the oldest entry is the one evicted.
C20_BoundedFifo ==
    \A s \in Scenarios :
        LET buf == Buffer(records, s)
            n == Min(Len(RecordedFor(s)), max_entries)
            kept == LastOf(RecordedFor(s), n)
        IN /\ Len(buf) <= max_entries
           /\ Len(buf) = n
           /\ \A i \in 1..n :
                  /\ buf[i].status = kept[i].status
                  /\ buf[i].timestamp = kept[i].timestamp
                  /\ buf[i].metadata = kept[i].metadata
                  /\ buf[i].measurement =
                         (IF kept[i].measurement \in {NoMeasurement, NonNumeric}
                          THEN NoMeasurement ELSE kept[i].measurement)

C20_Witness ==
    /\ max_entries = 2
    /\ Len(RecordedFor("A")) = 3
    /\ RecordedFor("A")[1].status = "success"
    /\ Len(Buffer(records, "A")) = 2
    /\ Buffer(records, "A")[1].timestamp = RecordedFor("A")[2].timestamp
    /\ Buffer(records, "A")[2].status = "failure"

\* the measurements a scenario's buffer holds, oldest first, absent ones skipped
MeasuredIn(s) ==
    LET kept == SelectSeq(Buffer(records, s),
                          LAMBDA e : e.measurement # NoMeasurement)
    IN [i \in 1..Len(kept) |-> kept[i].measurement]

\* C21 (as claimed): for every scenario and every limit >= 0,
\* recent_measurements returns at most limit values, namely the min(limit, m)
\* most recent non-absent measurements of the scenario in chronological order
\* (m = number of entries with a measurement), and an empty sequence for a
\* scenario with no entries.
C21_Original ==
    answer.op = "recent_measurements" =>
        LET all == MeasuredIn(answer.scenario_id)
        IN /\ Len(answer.result) <= answer.limit
           /\ answer.result = LastOf(all, Min(answer.limit, Len(all)))
           /\ Buffer(records, answer.scenario_id) = <<>> => answer.result = <<>>

\* what holds of the code: the claim's result for every limit >= 1; with
\* limit 0 the newest entry's measurement is returned when it has one
C21_FromLimitOne ==
    answer.op = "recent_measurements" =>
        LET all == MeasuredIn(answer.scenario_id)
            buf == Buffer(records, answer.scenario_id)
        IN IF answer.limit >= 1
           THEN answer.result = LastOf(all, Min(answer.limit, Len(all)))
           ELSE answer.result = (IF buf # <<>> /\ buf[Len(buf)].measurement # NoMeasurement
                                 THEN <<buf[Len(buf)].measurement>> ELSE <<>>)

\* C22: detect_ui_drift returns false whenever the new measurement is absent or
\* the scenario has fewer than window - 1 prior non-absent measurements,
\* whatever the value of the new measurement and whatever the window.
C22_NoVerdictWithoutHistory ==
    answer.op = "detect_ui_drift" =>
        ((\/ answer.measurement = NoMeasurement
          \/ Len(MeasuredIn(answer.scenario_id)) < answer.window - 1)
             => answer.result = FALSE)

C22_Witness ==
    /\ answer.op = "detect_ui_drift"
    /\ answer.scenario_id = "A"
    /\ answer.measurement = 15
    /\ answer.window = 3
    /\ Len(Buffer(records, "A")) = 2
    /\ MeasuredIn("A") = <<2>>
    /\ Len(MeasuredIn("B")) = 1
    /\ answer.result = FALSE

\* the window - 1 most recent non-absent measurements of a scenario
Baseline(s, window) ==
    LET all == MeasuredIn(s)
    IN LastOf(all, Min(Max(window - 1, 0), Len(all)))

\* measurement > mean(history) + tolerance (measurement > tolerance when the mean
\* is zero), with the mean's division multiplied out
ExceedsBaseline(m, history, tolerance) ==
    /\ m \notin {NoMeasurement, NonNumeric}
    /\ IF Sum(history) = 0 THEN m > tolerance
       ELSE m * Len(history) > Sum(history) + tolerance * Len(history)

\* C23 (as claimed): whenever at least window - 1 prior non-absent measurements
\* exist, detect_ui_drift returns true exactly when the measurement exceeds the
\* tolerance (mean of the window - 1 most recent measurements zero) or the mean
\* plus the tolerance (otherwise), strictly.
C23_Original ==
    answer.op = "detect_ui_drift" =>
        (Len(MeasuredIn(answer.scenario_id)) >= answer.window - 1
            => answer.result =
                   ExceedsBaseline(answer.measurement,
                                   Baseline(answer.scenario_id, answer.window),
                                   answer.tolerance))

\* C23 (amended): the same for every window >= 2; with a window below 2 there
\* is no prior measurement to average and detect_ui_drift returns false.
C23_ThresholdFromWindowTwo ==
    answer.op = "detect_ui_drift" =>
        /\ (answer.window >= 2
            /\ Len(MeasuredIn(answer.scenario_id)) >= answer.window - 1)
               => answer.result =
                      ExceedsBaseline(answer.measurement,
                                      Baseline(answer.scenario_id, answer.window),
                                      answer.tolerance)
        /\ answer.window < 2 => answer.result = FALSE

\* history [0.02, 0.03], tolerance 0.05, window 3: 0.15 is drift
C23_Witness ==
    /\ answer.op = "detect_ui_drift"
    /\ answer.scenario_id = "A"
    /\ MeasuredIn("A") = <<2, 3>>
    /\ answer.window = 3
    /\ answer.tolerance = 5
    /\ answer.measurement = 15
    /\ answer.result = TRUE

\* C24: with max_attempts = N >= 1, should_retry(attempt) is true for every
\* attempt in 1..N-1 and false for every attempt >= N: in a run() a retry is
\* prepared only after a failed attempt below N, the loop is left without a
\* preparation only after attempt N, and at most N attempts are started.
C24_RetryBelowMax ==
    /\ max_attempts >= 1
    /\ \A a \in 1..(MaxAttempts + 2) :
           should_retry(max_attempts, a) <=> a \in 1..(max_attempts - 1)
    /\ \A i \in 1..Len(prepared) :
           prepared[i].next_attempt - 1 \in 1..(max_attempts - 1)
    /\ pc = "exhausted" => attempt >= max_attempts
    /\ AttemptsStarted <= max_attempts
    /\ attempt <= max_attempts

C24_Witness ==
    /\ Raised("SelfHealingError")
    /\ max_attempts = 3
    /\ AttemptsStarted = 3
    /\ Len(prepared) = 2
    /\ prepared[2].next_attempt = 3

\* C25: delay_for(next_attempt) returns no delay when the delay sequence is
\* empty; otherwise the delay at position next_attempt - 2 (counted from 0),
\* the first delay for every next_attempt up to 2 and the last delay for every
\* next_attempt past the end of the sequence (clamped, not cycled).
C25_ClampedDelay ==
    answer.op = "delay_for" =>
        LET n == answer.next_attempt
            len == Len(delays)
        IN IF len = 0 THEN answer.result = NoDelay
           ELSE /\ n <= 2 => answer.result = delays[1]
                /\ n \in 2..(len + 1) => answer.result = delays[n - 1]
                /\ n > len + 1 => answer.result = delays[len]

\* delays (d0, d1): delay_for(4) = d1
C25_Witness ==
    /\ answer.op = "delay_for"
    /\ delays = <<5, 7>>
    /\ answer.next_attempt = 4
    /\ answer.result = 7

ScheduledEvents == SelectSeq(RunEvents, LAMBDA e : e.kind = "retry_scheduled")
ScheduledAudits == SelectSeq(RunAudit, LAMBDA e : e.event = "retry_scheduled")

\* the retry preparations of this run that got past their dependency restarts
PastRestarts ==
    Len(prepared) - (IF pc = "restart" \/ Raised("restart_callback") THEN 1 ELSE 0)

\* each retry_scheduled event, in telemetry and audit log, carries the next
\* attempt's number and delay_for of it, and none precedes the first
\* attempt_started of the run
ScheduledCarriesNextAttempt ==
    /\ Len(ScheduledAudits) = Len(ScheduledEvents)
    /\ Len(ScheduledEvents) <= Len(prepared)
    /\ \A i \in 1..Len(ScheduledEvents) :
           LET d == ScheduledEvents[i].details
               a == ScheduledAudits[i]
           IN /\ i <= Len(prepared) => d.attempt = prepared[i].next_attempt
              /\ d.attempt >= 2
              /\ delays # <<>>
              /\ d.delay = delays[Min(d.attempt - 1, Len(delays))]
              /\ a.attempt = d.attempt
              /\ a.delay = d.delay
              /\ a.scenario_id = d.scenario_id
    /\ \A i \in Positions(RunEvents, {"retry_scheduled"}) :
           \E j \in Positions(RunEvents, {"attempt_started"}) : j < i

\* C26 (as claimed): a retry preparation records retry_scheduled if and only if
\* the policy has a non-empty delay sequence, so once a preparation is past its
\* dependency restarts or has ended, the run has as many retry_scheduled events
\* as retry preparations (none with an empty sequence); each carries
\* attempt = a + 1 >= 2 and delay_for(a + 1) and follows the first attempt_started.
C26_Original ==
    /\ ScheduledCarriesNextAttempt
    /\ pc # "restart" =>
           Len(ScheduledEvents) = (IF delays = <<>> THEN 0 ELSE Len(prepared))

\* C26 (amended): the same, counting the retry preparations whose dependency
\* restarts completed: a preparation ended by a raising restart callback
\* records no retry_scheduled.
C26_ScheduledOncePastRestarts ==
    /\ ScheduledCarriesNextAttempt
    /\ Len(ScheduledEvents) = (IF delays = <<>> THEN 0 ELSE PastRestarts)

C26_Witness ==
    /\ Raised("SelfHealingError")
    /\ delays = <<5, 7>>
    /\ Len(prepared) = 2
    /\ Len(ScheduledEvents) = 2
    /\ ScheduledEvents[1].details.delay = 5
    /\ ScheduledEvents[2].details.attempt = 3
    /\ ScheduledEvents[2].details.delay = 7

\* a step in which DependencyManager.restart was called
RestartCalled == Len(restart_calls') = Len(restart_calls) + 1

\* C27: every restart(name) call adds exactly one to name's counter, with or
\* without a registered callback and whether or not the callback raises, and
\* leaves every other name's counter as it was; the call returns true exactly
\* when a callback is registered and completed, false when none is registered,
\* and does not return when the callback raises.
C27_RestartCounts ==
    [][RestartCalled =>
          LET call == restart_calls'[Len(restart_calls')]
              name == call.name
          IN /\ Count(restart_counts', name) = Count(restart_counts, name) + 1
             /\ \A other \in Deps \ {name} :
                    /\ Count(restart_counts', other) = Count(restart_counts, other)
                    /\ other \in DOMAIN restart_counts' <=> other \in DOMAIN restart_counts
             /\ DOMAIN restart_counts' = DOMAIN restart_counts \cup {name}
             /\ IF call.raised
                THEN /\ name \in restarters
                     /\ telemetry' = telemetry
                     /\ outcome'.kind = "raised"
                     /\ outcome'.error.src = "restart_callback"
                ELSE /\ Len(telemetry') = Len(telemetry) + 1
                     /\ telemetry'[Len(telemetry')].kind = "dependency_restarted"
                     /\ telemetry'[Len(telemetry')].details.dependency = name
                     /\ telemetry'[Len(telemetry')].details.restarted
                            = (name \in restarters)]_vars

C27_Witness ==
    /\ Raised("restart_callback")
    /\ restarters = {"db"}
    /\ Count(restart_counts, "ui") = 2
    /\ Count(restart_counts, "db") = 2
    /\ Len(restart_calls) = 4
    /\ restart_calls[4].name = "db"
    /\ restart_calls[4].raised

\* C28: every run() that was called ends, provided every callback call
\* terminates, and it ends by returning, by raising SelfHealingError or by
\* propagating an exception of a restart callback or a fallback handler, after
\* at least one and at most max_attempts attempts.
C28_Terminates ==
    /\ [](pc # "idle" => <>Finished)
    /\ [](Finished =>
             /\ \/ Returned
                \/ Raised("SelfHealingError")
                \/ CallbackRaised
             /\ AttemptsStarted \in 1..max_attempts)

C28_Witness ==
    /\ Raised("handler")
    /\ max_attempts = 3
    /\ AttemptsStarted = 2
    /\ CountKind(RunEvents, "executor_failed") = 2

\* the locator was called with current_request, in the attempt being made
LocatorGivenCurrentRequest ==
    Len(locator_calls') = Len(locator_calls) + 1 =>
        /\ locator_calls'[Len(locator_calls')].request = current_request
        /\ locator_calls'[Len(locator_calls')].attempt = attempt
        /\ attempt = Len(locator_calls')

\* the executor was called with the plan the locator returned in this attempt
ExecutorGivenLocatedPlan ==
    Len(executor_calls') = Len(executor_calls) + 1 =>
        /\ pc = "execute"
        /\ executor_calls'[Len(executor_calls')] = locator_result.plan
        /\ ~locator_calls[Len(locator_calls)].raised
        /\ locator_calls[Len(locator_calls)].attempt = attempt
        /\ locator_result.plan = <<"plan", attempt>>

\* a retry preparation ends by handing over the request for the next attempt:
\* what the fallback handler returned (the request itself when it returned
\* nothing), or the replan's request with one more marker at the end of its list
PreparationHandsOver ==
    (PreparationStep /\ pc' = "loop") =>
        /\ attempt' = attempt + 1
        /\ IF pc = "fallback"
           THEN current_request' = (IF handler_result' = None THEN current_request
                                    ELSE handler_result')
           ELSE LET plans == current_request'.metadata.healing_plans
                IN /\ ReplanStep
                   /\ current_request' =
                          [current_request EXCEPT !.metadata.healing_plans = plans]
                   /\ plans # 0
                   /\ heap'[plans][Len(heap'[plans])].type = "replan"
                   /\ heap'[plans][Len(heap'[plans])].attempt = attempt + 1

\* between its preparations a run() keeps its current request
RequestKeptOutsidePreparation ==
    (pc # "idle" /\ ~(PreparationStep /\ pc' = "loop")) =>
        current_request' = current_request

\* C29: attempt 1 gives the locator the caller's request; attempt a + 1 gives it
\* exactly the request the retry preparation after attempt a produced (the
\* fallback strategy's returned request, or the replan's marker-bearing
\* request); in each attempt the executor receives exactly the plan the locator
\* returned in that attempt.
C29_RequestAndPlanPassedOn ==
    /\ [](/\ Len(locator_calls) >= 1 => locator_calls[1].request = request
          /\ \A k \in 1..Len(locator_calls) : locator_calls[k].attempt = k
          /\ pc \in {"loop", "locate"} /\ attempt = 1 => current_request = request)
    /\ [][/\ LocatorGivenCurrentRequest
          /\ ExecutorGivenLocatedPlan
          /\ PreparationHandsOver
          /\ RequestKeptOutsidePreparation]_vars

C29_Witness ==
    /\ Len(locator_calls) = 3
    /\ handler_result # None
    /\ locator_calls[2].request = handler_result
    /\ locator_calls[2].request # request
    /\ locator_calls[2].request.metadata.healing_plans = 0
    /\ locator_calls[3].request.metadata.healing_plans # 0
    /\ locator_calls[3].request.metadata.hint = locator_calls[2].request.metadata.hint
    /\ executor_calls = << <<"plan", 2>>, <<"plan", 3>> >>

HasSection == "self_healing" \in DOMAIN context

\* C30: constructing the ContextStateManager installs an empty audit log and an
\* empty telemetry snapshot only when the supplied context has no self_healing
\* section; an existing section is kept with its audit entries, which stay at
\* the front of the audit log for good; afterwards every step leaves the
\* supplied mapping in place, only appends to the audit log and changes the
\* telemetry snapshot only by overwriting it with the current summary.
C30_SectionKept ==
    /\ [](/\ runs = 0 =>
                /\ audit_log = (IF HasSection THEN context.self_healing.audit_log
                                ELSE <<>>)
                /\ ctx_telemetry = (IF HasSection THEN context.self_healing.telemetry
                                    ELSE EmptyDict)
          /\ HasSection => IsPrefix(context.self_healing.audit_log, audit_log))
    /\ [][/\ context' = context
          /\ IsPrefix(audit_log, audit_log')
          /\ ctx_telemetry' # ctx_telemetry =>
                 ctx_telemetry' = telemetry_summary(telemetry', restart_counts')]_vars

C30_Witness ==
    /\ Raised("SelfHealingError")
    /\ HasSection
    /\ context.self_healing.audit_log = <<EarlierEntry>>
    /\ audit_log[1] = EarlierEntry
    /\ Len(audit_log) > 3
    /\ audit_log[Len(audit_log)].event = "recovery_failed"
    /\ ctx_telemetry.dependency_restarts = ("db" :> 1)
    /\ ctx_telemetry # EarlierSnapshot

\* C31: RetryPolicy(max_attempts=n) fails with ValueError exactly when n < 1, so
\* an engine only ever runs with max_attempts >= 1, and every run() that ended
\* has recorded at least one attempt_started event.
C31_AtLeastOneAttempt ==
    /\ answer # NoAnswer =>
           (answer.result = "ValueError" <=> answer.max_attempts < 1)
    /\ PolicyBuilt => max_attempts = answer.max_attempts /\ max_attempts >= 1
    /\ runs > 0 => PolicyBuilt
    /\ pc \notin {"idle", "loop"} => AttemptsStarted >= 1
    /\ Finished =>
           /\ AttemptsStarted >= 1
           /\ RunEvents[1].kind = "attempt_started"

C31_Witness ==
    /\ answer # NoAnswer
    /\ answer.max_attempts = 1
    /\ Raised("SelfHealingError")
    /\ AttemptsStarted = 1

\* what run() records with the locator above when it runs alone: two failed
\* attempts, each followed by a replan while the policy grants a retry, then
\* success on attempt 3 or exhaustion after attempt 2
AloneKinds ==
    IF max_attempts = 2
    THEN <<"attempt_started", "locator_failed", "replan_applied",
           "attempt_started", "locator_failed", "recovery_failed">>
    ELSE <<"attempt_started", "locator_failed", "replan_applied",
           "attempt_started", "locator_failed", "replan_applied",
           "attempt_started", "healing_success">>
AloneAudit ==
    SelectSeq(AloneKinds, LAMBDA k : k # "attempt_started")
AloneOutcome == IF max_attempts = 2 THEN "raised" ELSE "returned"
AloneEntries == IF max_attempts = 2 THEN 2 ELSE 3

EngineDone(e) == e.pc = "idle" /\ e.outcome # NoOutcome
TotalRecorded(e) == Len(e.outcomes)
AsAlone(e) ==
    /\ KindsOf(e.telemetry) = AloneKinds
    /\ [i \in 1..Len(e.audit_log) |-> e.audit_log[i].event] = AloneAudit
    /\ TotalRecorded(e) = AloneEntries
    /\ e.outcome.kind = AloneOutcome

\* an engine whose run ended while the other engine had not been called yet
AloneReference ==
    (EngineDone(EngineState) /\ parked.runs = 0) => AsAlone(EngineState)

\* the two engines were given requests with different healing_plans lists
DifferentRequests ==
    (runs > 0 /\ parked.runs > 0) => request # parked.request
SeparateRequestsAsAlone ==
    DifferentRequests =>
        \A e \in {EngineState, parked} : EngineDone(e) => AsAlone(e)

\* C32 (as claimed): two run() calls with interleaved steps on two engines that
\* share no history, telemetry, context or dependency manager do not
\* interfere: the telemetry, audit log, history and outcome of each engine are
\* those of its run executed alone.
C32_Original ==
    \A e \in {EngineState, parked} : EngineDone(e) => AsAlone(e)


(* ----------------- telemetry.as_dict() read between steps ----------------- *)

NoCall == [clock |-> -1, result |-> <<>>]

\* the call before this one, with the clock it was made at: record() reads the
\* clock (engine.py:184), so an unchanged clock means no record() in between
PreviousCall ==
    IF answer # NoAnswer /\ answer.op = "as_dict"
    THEN [clock |-> answer.clock, result |-> answer.result]
    ELSE NoCall

\* faulty variant: the call hands the events over and empties the list
AsDictDrains ==
    /\ telemetry' = <<>>
    /\ answer' = [op |-> "as_dict", clock |-> clock, result |-> as_dict(telemetry),
                  previous |-> PreviousCall, before |-> telemetry,
                  after |-> telemetry']
    /\ UNCHANGED <<config_vars, ghost_vars, restart_counts, records, audit_log,
                   ctx_telemetry, heap, clock, pc, request, current_request,
                   fallback_queue, attempt, last_error, locator_result,
                   dep_index, strategy, outcome, locator_calls, executor_calls,
                   restart_calls, prepared, outcomes, handler_result>>

\* telemetry.as_dict(), called by the engine's owner or by a callback
AsDict ==
    /\ telemetry' = telemetry
    /\ answer' = [op |-> "as_dict", clock |-> clock, result |-> as_dict(telemetry),
                  previous |-> PreviousCall, before |-> telemetry,
                  after |-> telemetry']
    /\ UNCHANGED <<config_vars, ghost_vars, restart_counts, records, audit_log,
                   ctx_telemetry, heap, clock, pc, request, current_request,
                   fallback_queue, attempt, last_error, locator_result,
                   dep_index, strategy, outcome, locator_calls, executor_calls,
                   restart_calls, prepared, outcomes, handler_result>>

InitTelemetry ==
    /\ max_attempts \in 1..MaxAttempts
    /\ max_attempts < MaxAttempts
    /\ delays = <<>>
    /\ restarters = {"db"}
    /\ max_entries = HistoryCapacity
    /\ Fresh

NextTelemetry ==
    \/ \E tpl \in RunTemplates : runs < MaxRuns /\ Run(tpl)
    \/ Step
    \/ AsDict

SpecTelemetry == InitTelemetry /\ [][NextTelemetry]_vars

AsDictCalled == answer # NoAnswer /\ answer.op = "as_dict"

\* C33: two as_dict() calls with no record() and no run() between them return
\* identical sequences, and as_dict() leaves the telemetry event list as it
\* found it.
C33_AsDictRepeatable ==
    AsDictCalled =>
        /\ answer.after = answer.before
        /\ (answer.previous # NoCall /\ answer.previous.clock = answer.clock)
               => answer.result = answer.previous.result

\* as_dict() called twice in a row on a list that holds events, after another
\* call that saw a shorter list
C33_Witness ==
    /\ AsDictCalled
    /\ answer.previous # NoCall
    /\ answer.previous.clock = answer.clock
    /\ Len(answer.result) > 2
    /\ answer.result = answer.previous.result
    /\ telemetry = answer.before


UnauditedKinds == {"attempt_started", "fallback_considered"}
AuditedTelemetryKinds ==
    KindsOf(SelectSeq(telemetry, LAMBDA ev : ev.kind \notin UnauditedKinds))
AuditEventNames == [k \in 1..Len(audit_log) |-> audit_log[k].event]

\* C34: at every point where run() has returned or raised, on an engine whose
\* context and telemetry only run() writes, the audit log's event names are the
\* telemetry event kinds without attempt_started and fallback_considered, in
\* the same order.
C34_AuditMirrorsTelemetry ==
    Finished => AuditEventNames = AuditedTelemetryKinds

\* a run has ended after a restart, a scheduled retry, a considered fallback, a
\* replan and a drift verdict
C34_Witness ==
    /\ Finished
    /\ CountKind(telemetry, "fallback_considered") > 0
    /\ CountKind(telemetry, "dependency_restarted") > 0
    /\ CountKind(telemetry, "retry_scheduled") > 0
    /\ CountKind(telemetry, "ui_drift_detected") > 0
    /\ CountKind(telemetry, "replan_applied") > 0
    /\ Len(audit_log) < Len(telemetry)


RestartedEventsFor(d) ==
    Cardinality({i \in Positions(telemetry, {"dependency_restarted"}) :
                     telemetry[i].details.dependency = d})
RestartCountOf(d) == Count(telemetry_summary(telemetry, restart_counts).dependency_restarts, d)

\* C35 as stated: whenever run() is not executing, for every dependency name
\* the restart count of telemetry_summary equals the number of
\* dependency_restarted telemetry events for that name, over any sequence of
\* runs, runs aborted by a raising restart callback included.
C35_Original ==
    pc = "idle" => \A d \in Deps : RestartCountOf(d) = RestartedEventsFor(d)

\* C35, amended: whenever run() is not executing, for every dependency name the
\* restart count equals the number of dependency_restarted telemetry events for
\* that name plus the number of restart callbacks for that name that raised,
\* over any sequence of runs.
C35_CountIsEventsPlusRaised ==
    pc = "idle" =>
        \A d \in Deps :
            RestartCountOf(d) = RestartedEventsFor(d) + Count(raised_restarts, d)

\* a second run has ended with a recorded restart of db after the first was
\* aborted by db's callback
C35_Witness ==
    /\ Finished
    /\ runs = MaxRuns + MoreRuns
    /\ Count(raised_restarts, "db") = 1
    /\ RestartedEventsFor("db") > 0
    /\ RestartCountOf("db") = RestartedEventsFor("db") + 1


\* the attempt now running was prepared by a fallback strategy
PreparedByFallback ==
    /\ pc \notin {"idle", "fallback"}
    /\ attempt >= 2
    /\ \E i \in Positions(RunEvents, {"fallback_applied"}) :
           RunEvents[i].details.attempt = attempt
\* ... whose handler returned no change (handler_result is that handler's answer)
PreparedByNoChange == PreparedByFallback /\ handler_result = None

\* the handler call of a preparation returns no change
NoChangeReturned == pc = "fallback" /\ pc' = "loop" /\ handler_result' = None

\* the events of the run that carry the number of the attempt now running
PreparationKinds ==
    KindsOf(SelectSeq(RunEvents,
                      LAMBDA ev : /\ ev.details.attempt = attempt
                                  /\ ev.kind \in {"fallback_considered",
                                                  "fallback_applied",
                                                  "replan_applied"}))

\* C36: when a fallback strategy's handler returns no change, the next attempt
\* uses the very same request as the failed attempt, no replan marker is added,
\* the strategy is still consumed from the queue, and fallback_considered and
\* fallback_applied are still recorded.
C36_NoChangeFallback ==
    /\ [](PreparedByNoChange =>
            /\ current_request = locator_calls[attempt - 1].request
            /\ Len(locator_calls) >= attempt =>
                   locator_calls[attempt].request = locator_calls[attempt - 1].request
            /\ PreparationKinds = <<"fallback_considered", "fallback_applied">>
            /\ ConsideredStrategies[Len(ConsideredStrategies)] = strategy
            /\ fallback_queue = SubSeq(request.fallback_strategies,
                                       Len(ConsideredStrategies) + 1,
                                       Len(request.fallback_strategies)))
    /\ [][NoChangeReturned =>
            /\ current_request' = current_request
            /\ heap' = heap
            /\ fallback_queue' = fallback_queue]_vars

\* the second attempt's locator call was given the first attempt's request,
\* list of plans included, after strategy s1 returned no change
C36_Witness ==
    /\ PreparedByNoChange
    /\ Len(locator_calls) = 2
    /\ locator_calls[2].request = request
    /\ request.metadata.healing_plans # 0
    /\ request.fallback_strategies = <<"s1", "s2">>
    /\ fallback_queue = <<"s2">>
    /\ CountKind(RunEvents, "replan_applied") = 0


FallbackConsideredAt == Positions(telemetry, {"fallback_considered"})
FollowedByApplied(i) ==
    /\ i < Len(telemetry)
    /\ telemetry[i + 1].kind = "fallback_applied"
    /\ telemetry[i + 1].details.strategy = telemetry[i].details.strategy
    /\ telemetry[i + 1].details.attempt = telemetry[i].details.attempt
\* event i is the last one its run() recorded: nothing follows it, or the first
\* event of a later run() does
EndsItsRun(i) ==
    \/ i = Len(telemetry)
    \/ /\ telemetry[i + 1].kind = "attempt_started"
       /\ telemetry[i + 1].details.attempt = 1

\* C37 as stated: in the telemetry sequence left by any runs, each
\* fallback_considered event is immediately followed by a fallback_applied event
\* with the same strategy name and attempt number, also when the handler raised.
C37_Original ==
    Finished => \A i \in FallbackConsideredAt : FollowedByApplied(i)

\* C37, amended: each fallback_considered event is immediately followed by a
\* fallback_applied event with the same strategy name and attempt number,
\* except when the handler raises: then fallback_considered is the last event
\* that run() records.
C37_AppliedUnlessHandlerRaised ==
    pc # "fallback" =>
        /\ \A i \in FallbackConsideredAt :
               \/ FollowedByApplied(i)
               \/ /\ EndsItsRun(i)
                  /\ i > run_start =>
                         /\ Raised("handler")
                         /\ outcome.error.strategy = telemetry[i].details.strategy
                         /\ outcome.error.attempt = telemetry[i].details.attempt
        /\ Raised("handler") =>
               /\ RunEvents # <<>>
               /\ RunEvents[Len(RunEvents)].kind = "fallback_considered"

\* a run whose handler returned has ended after an earlier run was ended by its
\* raising handler
C37_Witness ==
    /\ Returned
    /\ runs = MaxRuns + MoreRuns
    /\ run_start \in FallbackConsideredAt
    /\ ~FollowedByApplied(run_start)
    /\ \E i \in FallbackConsideredAt : i > run_start /\ FollowedByApplied(i)


\* the measurements the history holds for scenario s, oldest first, read off the
\* record_outcome calls made so far: the newest max_entries calls are kept
KeptMeasurements(s) ==
    LET calls == RecordedFor(s)
        kept == LastOf(calls, Min(Len(calls), max_entries))
        measured == SelectSeq(kept, LAMBDA o :
                                 coerce_measurement(o.measurement) # NoMeasurement)
    IN [i \in 1..Len(measured) |-> coerce_measurement(measured[i].measurement)]
StageOf(o) == IF "stage" \in DOMAIN o.metadata THEN o.metadata.stage ELSE "none"
\* the locator has returned in the current attempt and the verdict is in
VerdictIn == pc = "execute"
DriftVerdict ==
    /\ RunEvents # <<>>
    /\ RunEvents[Len(RunEvents)].kind = "ui_drift_detected"
    /\ RunEvents[Len(RunEvents)].details.attempt = attempt
AttemptStartedAt ==
    LET started == SelectSeq(RunEvents, LAMBDA ev : ev.kind = "attempt_started")
    IN started[Len(started)].timestamp

\* C38: the drift verdict of an attempt is computed before the attempt's own
\* outcome is recorded, so its baseline holds only measurements recorded before:
\* those logged by executor-failed attempts earlier in the run and by earlier
\* runs of the same scenario_id count, locator-failed attempts log no
\* measurement and add nothing.
C38_BaselineBeforeOwnOutcome ==
    /\ VerdictIn =>
           LET sid == current_request.scenario_id
               prior == KeptMeasurements(sid)
               history == LastOf(prior, Min(DriftWindow - 1, Len(prior)))
           IN /\ \A k \in 1..Len(outcomes) : outcomes[k].timestamp < AttemptStartedAt
              /\ DriftVerdict <=>
                     /\ Len(prior) >= DriftWindow - 1
                     /\ ExceedsBaseline(locator_result.measurement, history,
                                        DriftTolerance)
    /\ \A k \in 1..Len(outcomes) :
           StageOf(outcomes[k]) = "locator" => outcomes[k].measurement = NoMeasurement

\* the second attempt of a second run is judged to drift against one measurement
\* logged by an executor-failed attempt of the first run and one logged by the
\* executor-failed first attempt of this run, with a locator-failed attempt of
\* the first run in between
C38_Witness ==
    /\ VerdictIn
    /\ DriftVerdict
    /\ runs = MaxRuns + MoreRuns
    /\ attempt = 2
    /\ locator_result.measurement = 15
    /\ Len(outcomes) = 3
    /\ StageOf(outcomes[1]) = "executor" /\ outcomes[1].status = "failure"
    /\ outcomes[1].measurement = 2
    /\ StageOf(outcomes[2]) = "locator"
    /\ StageOf(outcomes[3]) = "executor" /\ outcomes[3].status = "failure"
    /\ outcomes[3].measurement = 2
    /\ KeptMeasurements(current_request.scenario_id) = <<2, 2>>


RunCalled == pc = "idle" /\ pc' # "idle"
\* a buffer of the history is left alone or takes one more entry at its end
\* (the deque drops its oldest entry when it is full)
KeptOrAppended(s) ==
    LET buf == Buffer(records, s)
        after == Buffer(records', s)
    IN \/ after = buf
       \/ /\ after # <<>>
          /\ after = deque_append(buf, max_entries, after[Len(after)])

\* C39: across consecutive run() calls on one engine the fallback queue is
\* rebuilt from the request at the start of each run, whatever the run before
\* left of it, while restart counts, history entries, telemetry events and audit
\* entries are kept by the call and only grow afterwards: nothing is reset
\* between runs.
C39_QueueRebuiltRestAccumulates ==
    [][/\ RunCalled =>
              /\ fallback_queue' = request'.fallback_strategies
              /\ current_request' = request'
              /\ restart_counts' = restart_counts
              /\ records' = records
              /\ telemetry' = telemetry
              /\ audit_log' = audit_log
       /\ \A d \in Deps : Count(restart_counts', d) >= Count(restart_counts, d)
       /\ \A s \in Scenarios : KeptOrAppended(s)
       /\ IsPrefix(telemetry, telemetry')
       /\ IsPrefix(audit_log, audit_log')]_vars

\* a second run has just been called with a strategy, after a first run that
\* consumed its strategy, restarted db and left entries in history, telemetry
\* and audit log
C39_Witness ==
    /\ runs = MaxRuns + MoreRuns
    /\ pc = "loop"
    /\ attempt = 1
    /\ Len(telemetry) = run_start
    /\ fallback_queue = <<"s1">>
    /\ CountKind(telemetry, "fallback_considered") = 1
    /\ Count(restart_counts, "db") > 0
    /\ Buffer(records, "A") # <<>>
    /\ audit_log # <<>>


OutcomeRecorded == Len(outcomes') = Len(outcomes) + 1
QueryMade ==
    /\ answer' # answer
    /\ answer'.op \in {"recent_measurements", "detect_ui_drift"}
HasBuffer(recs, s) == s \in DOMAIN recs

\* C40: record_outcome(s, ...) leaves the buffer of every other scenario as it
\* was, and recent_measurements and detect_ui_drift leave every buffer as it
\* was and create none for a scenario that has none.
C40_ScopedToScenario ==
    [][/\ OutcomeRecorded =>
              LET s == outcomes'[Len(outcomes')].scenario_id
              IN /\ HasBuffer(records', s)
                 /\ \A other \in Scenarios \ {s} :
                        /\ HasBuffer(records', other) <=> HasBuffer(records, other)
                        /\ Buffer(records', other) = Buffer(records, other)
       /\ QueryMade =>
              /\ DOMAIN records' = DOMAIN records
              /\ \A s \in Scenarios : Buffer(records', s) = Buffer(records, s)]_vars

\* a query was made for scenario B, which has no buffer, after outcomes were
\* recorded for scenario A only
C40_Witness ==
    /\ answer # NoAnswer
    /\ answer.op \in {"recent_measurements", "detect_ui_drift"}
    /\ answer.scenario_id = "B"
    /\ ~HasBuffer(records, "B")
    /\ HasBuffer(records, "A")
    /\ Len(Buffer(records, "A")) = 2
    /\ Len(outcomes) = 2

====
